---- MODULE Spec2Model ----
(***************************************************************************)
(* Clustering and consensus-detection engine of the consensus bot.         *)
(*                                                                         *)
(* Two threads share the active Discussion (app/main.py:86 starts the      *)
(* Discord bot in its own thread):                                         *)
(*   - the bot's event loop runs one on_message task per gateway event     *)
(*     (add_message_to_active_question, process_one -> assign_message);    *)
(*   - the API server's event loop runs analyze_historical_messages,       *)
(*     process_all and periodic_clustering (bootstrap_fixed_kmeans).       *)
(* The embedding and label calls are synchronous OpenAI client calls made  *)
(* inside coroutines: they never yield to their own event loop, but they   *)
(* block the calling thread, so the other thread runs meanwhile.  The only *)
(* await of on_message that can yield to the bot's loop is the websocket   *)
(* broadcast inside add_message_to_active_question.                        *)
(*                                                                         *)
(* Vectors are pairs of integers of squared norm 25 (the provider returns  *)
(* unit-length vectors), so every cosine is the rational dot/25 and every  *)
(* comparison below is exact integer arithmetic.                           *)
(***************************************************************************)
EXTENDS Integers, Sequences, FiniteSets, TLC

\* ---------------------------------------------------------------- bounds
NHist == 5            \* messages in the channel history when the question is asked
MaxLive == 2          \* gateway events delivered to on_message
MaxBoot == 2          \* bootstrap passes started
MaxRestart == 1       \* process restarts
MaxQuestions == 2     \* questions asked

\* ------------------------------------------------------ program constants
CLUSTER_MAX_COUNT == 4
CLUSTER_ASSIGNMENT_THRESHOLD == 73       \* hundredths
NEW_MESSAGE_THRESHOLD == 20              \* hundredths
HISTORICAL_MESSAGE_THRESHOLD == 40       \* hundredths
PERIODIC_MIN_MESSAGES == 4
MAX_ATTEMPTS == 3
LABEL_SIMILARITY_LIMIT == 90             \* hundredths
OVERLAP_RATIO_MIN == 50                  \* hundredths
SIZE_RATIO_MIN == 45                     \* hundredths
USER_RATIO_MIN == 50                     \* hundredths
SENTIMENT_STD_MAX == 25                  \* hundredths
INTRA_SIMILARITY_MIN == 55               \* hundredths
MIN_CLUSTER_MESSAGES == 2

None == "None"

\* two_word_summary = None: the label of no words.
NoLabel == <<>>

\* ------------------------------------------------------------- universe
\* Message ids are Discord snowflakes: 1..NHist are in the channel history,
\* the later ones arrive live.  A message's content and author never change.
MsgIds == 1 .. (NHist + MaxLive)

\* Texts: 1 and 2 are the two opinions the history holds (each posted
\* twice, word for word), 3 is the opinion the live messages bring, 4 is a
\* further on-topic text, 5 is off-topic chatter.
ContentOf(m) ==
    CASE m = 1 -> 1
      [] m = 2 -> 1
      [] m = 3 -> 2
      [] m = 4 -> 2
      [] m = 5 -> 5
      [] m = 6 -> 3
      [] m = 7 -> 3
      [] m = 8 -> 4
      [] OTHER -> (m % 5) + 1

AuthorOf(m) == ((m - 1) % 3) + 1

\* The provider's vector for a text (squared norm 25).
EmbeddingOf(t) ==
    CASE t = 1 -> <<5, 0>>
      [] t = 2 -> <<3, 4>>
      [] t = 3 -> <<4, 3>>
      [] t = 4 -> <<-3, 4>>
      [] OTHER -> <<0, -5>>

QuestionEmbedding == <<3, 4>>

\* First word of a text that is no stopword and longer than 3 letters.
FirstWordOf(t) ==
    CASE t = 1 -> "room"
      [] t = 2 -> "budget"
      [] t = 3 -> "budget"
      [] t = 4 -> "room"
      [] OTHER -> "pizza"

\* ------------------------------------------------------ numeric helpers
Abs(x) == IF x < 0 THEN -x ELSE x

RECURSIVE GCD(_, _)
GCD(a, b) == IF b = 0 THEN Abs(a) ELSE GCD(b, a % b)

\* A rational num/den in lowest terms with den > 0.
Rat(num, den) ==
    LET g == GCD(Abs(num), den)
    IN  [num |-> num \div g, den |-> den \div g]

RatGE(r, hundredths) == r.num * 100 >= hundredths * r.den
RatLE(r, hundredths) == r.num * 100 <= hundredths * r.den

Dot(a, b) == a[1] * b[1] + a[2] * b[2]
Norm2(a) == Dot(a, a)

\* x * |x|: order-preserving square, for comparing cosines without roots.
SignedSq(x) == x * Abs(x)

\* cosine_similarity(a, b) >= t/100 ; sklearn gives 0 when a norm is 0.
CosGE(a, b, t) ==
    LET n == Norm2(a) * Norm2(b)
    IN  IF n = 0 THEN 0 >= t
        ELSE SignedSq(Dot(a, b)) * 10000 >= SignedSq(t) * n

\* cosine_similarity(a, b) > t/100
CosGT(a, b, t) ==
    LET n == Norm2(a) * Norm2(b)
    IN  IF n = 0 THEN 0 > t
        ELSE SignedSq(Dot(a, b)) * 10000 > SignedSq(t) * n

\* cosine_similarity(a, b) > cosine_similarity(a, c)
CosGreater(a, b, c) ==
    LET nb == IF Norm2(b) = 0 THEN 1 ELSE Norm2(b)
        nc == IF Norm2(c) = 0 THEN 1 ELSE Norm2(c)
        db == IF Norm2(b) = 0 THEN 0 ELSE Dot(a, b)
        dc == IF Norm2(c) = 0 THEN 0 ELSE Dot(a, c)
    IN  SignedSq(db) * nc > SignedSq(dc) * nb

RECURSIVE SumVec(_)
SumVec(vs) ==
    IF vs = <<>> THEN <<0, 0>>
    ELSE LET r == SumVec(Tail(vs))
         IN  <<vs[1][1] + r[1], vs[1][2] + r[2]>>

\* ------------------------------------------------------------- kernel
\* clustering.centroid: the arithmetic mean, kept as the vector sum over
\* the count in lowest terms; "error" stands for the ValueError.
centroid(embs) ==
    IF Len(embs) = 0 THEN "error"
    ELSE LET s == SumVec(embs)
             g == GCD(GCD(Abs(s[1]), Abs(s[2])), Len(embs))
         IN  [num |-> <<s[1] \div g, s[2] \div g>>, den |-> Len(embs) \div g]

\* Sum of the dot products of the pairs i < j.
PairDotSum(embs) ==
    LET P == {p \in (1 .. Len(embs)) \X (1 .. Len(embs)) : p[1] < p[2]}
        RECURSIVE S(_)
        S(Q) == IF Q = {} THEN 0
                ELSE LET p == CHOOSE x \in Q : TRUE
                     IN  Dot(embs[p[1]], embs[p[2]]) + S(Q \ {p})
    IN  S(P)

\* An intra_similarity that answers 1.0 for no vectors as for one.
intra_similarity_flat(embs) ==
    IF Len(embs) <= 1 THEN Rat(1, 1)
    ELSE Rat(PairDotSum(embs), 25 * ((Len(embs) * (Len(embs) - 1)) \div 2))

\* clustering.intra_similarity: mean of the upper-triangular cosines.
intra_similarity(embs) ==
    IF Len(embs) <= 1 THEN (IF Len(embs) = 1 THEN Rat(1, 1) ELSE Rat(0, 1))
    ELSE Rat(PairDotSum(embs), 25 * ((Len(embs) * (Len(embs) - 1)) \div 2))

\* --------------------------------------------------------------- labels
\* A label is a sequence of words (the string joined by single spaces).
LowerWord(w) ==
    CASE w = "Plan" -> "plan"
      [] w = "Cost" -> "cost"
      [] w = "Room" -> "room"
      [] w = "Budget" -> "budget"
      [] w = "Pizza" -> "pizza"
      [] OTHER -> w

\* str.capitalize of a lower-case word.
Capitalize(w) ==
    CASE w = "room" -> "Room"
      [] w = "budget" -> "Budget"
      [] w = "pizza" -> "Pizza"
      [] w = "plan" -> "Plan"
      [] OTHER -> w

\* str.lower of a label.
Lower(label) == [i \in 1 .. Len(label) |-> LowerWord(label[i])]

\* What llm_service.two_word_label can answer: the model's text, cut to
\* two words.  "Plan" and "plan" differ in case only; "Cost" is unrelated
\* to "Plan" but close in meaning to any label about the budget.
GenOut == {<<"Plan">>, <<"plan">>, <<"Cost">>}

\* The provider's vector for a label text.
LabelEmbedding(label) ==
    LET w == LowerWord(label[Len(label)])
    IN  CASE w = "plan" -> <<4, 3>>
          [] w = "cost" -> <<-3, 4>>
          [] w = "budget" -> <<-4, 3>>
          [] OTHER -> <<0, -5>>

\* max cosine_similarity(candidate, existing labels) > 0.90
TooSimilar(candidate, generated_labels) ==
    \E i \in 1 .. Len(generated_labels) :
        CosGT(LabelEmbedding(candidate), LabelEmbedding(generated_labels[i]),
              LABEL_SIMILARITY_LIMIT)

\* --------------------------------------------------------------- state
VARIABLES
    messages,            \* q.discord_messages: message ids in list order
    summary,             \* two_word_summary of each stored message
    classification,      \* classification of each stored message
    participants,        \* q.participants: author -> message_count (0: no entry)
    clusters,            \* q.clusters
    unassigned_buffer,   \* q.unassigned_buffer
    two_word_summaries,  \* q.two_word_summaries (a sorted list of a set)
    epoch,               \* how many times q.clusters was replaced (object identity)
    lastPass,            \* the cluster list as the last completed pass made it
    history,             \* global_historical_messages
    cache,               \* texts whose embedding is in the embedding cache (0: the question)
    dirty,               \* the Discussion changed since the last save_all_questions
    hMsg,                \* on_message tasks: the message of each gateway event
    hPc,                 \* ... where each task stands
    hStored,             \* ... whether the task's DiscordMessage object is the stored one
    hRef,                \* ... the cluster object and texts held across the batch call,
                         \*     and the member list and label assign_message found
    analysisPending,     \* the question was just created: historical analysis to run
    apiTask,             \* what the API loop is running
    bs,                  \* locals of the bootstrap_fixed_kmeans pass in flight
    last_message_count,  \* periodic_clustering's last_message_count
    bootCount,           \* bootstrap passes started
    restarts,            \* process restarts
    question_id,         \* active_question.question_id (the n-th id drawn is n)
    hist,                \* analyze_historical_messages_for_question in its adding loop
    diskOk,              \* the cache directory can be written
    evalPc,              \* the evaluator call under study: "idle", "ready", "done"
    metrics,             \* check_consensus_conditions: its argument
    verdict,             \* ... and its result
    perturbed,           \* the argument is a passing one with one metric moved
    total_guild_members, \* what get_total_guild_members answers
    providerUp,          \* the embedding provider answers during the call
    nearest,             \* a call of clustering.assign_nearest: arguments and result
    call,                \* a call of another function under study: arguments and result
    analyzed,            \* labels handed to analyze_cluster, in call order
    consensus_events     \* detect_consensus_for_question: the list returned

discussion == <<messages, summary, classification, participants, clusters,
                unassigned_buffer, two_word_summaries, epoch, lastPass>>
botVars == <<hMsg, hPc, hStored, hRef>>
apiVars == <<analysisPending, apiTask, bs, last_message_count, bootCount>>
evalVars == <<evalPc, metrics, verdict, perturbed, total_guild_members, providerUp, nearest, call,
              analyzed, consensus_events>>
engineVars == <<discussion, history, cache, dirty, botVars, apiVars, restarts, question_id, hist, diskOk>>
vars == <<engineVars, evalVars>>

Authors == {AuthorOf(m) : m \in MsgIds}
QuestionText == 0

NoRef == [epoch |-> 0, idx |-> 0, texts |-> <<>>, ids0 |-> <<>>, label0 |-> NoLabel]
\* No historical analysis in its adding loop.
NoHist == [rest |-> <<>>, checked |-> FALSE]

IdleBs == [pc |-> "idle", n |-> 0, part |-> <<>>, cid |-> 0, new |-> <<>>, gen |-> <<>>]

\* No call of a function under study.
NoCall == [fn |-> "none"]

\* No call of assign_nearest under study.
NoNearest == [pc |-> "idle", msg_emb |-> <<0, 0>>, clusters |-> <<>>, threshold |-> 0, result |-> 0]

\* save_all_questions after its callers' changes: the file is written when
\* the disk allows; an Exception of the write is caught and printed (lines
\* 223, 285-286), so nothing is raised.
save_all_questions_unguarded == [raised |-> ~diskOk, written |-> diskOk]

save_all_questions == [raised |-> FALSE, written |-> diskOk]

\* The caller goes on after save_all_questions; the file is the Discussion
\* when it was written.
SaveReturns ==
    /\ ~save_all_questions.raised
    /\ dirty' = ~save_all_questions.written

\* A float known by its square: the non-negative root of sq.
RootOf(r) == [sq |-> r]
RootLE(s, hundredths) == s.sq.num * 10000 <= hundredths * hundredths * s.sq.den

\* compute_cluster_metrics, lines 76-82: the metrics of no messages.
EmptyMetrics ==
    [cluster_size_ratio |-> Rat(0, 1), user_ratio |-> Rat(0, 1),
     sentiment_std |-> RootOf(Rat(1, 1)), intra_similarity |-> Rat(0, 1)]

\* No evaluator call is under study.
EvalIdle ==
    /\ evalPc = "idle"
    /\ metrics = EmptyMetrics
    /\ verdict = FALSE
    /\ perturbed = FALSE
    /\ total_guild_members = 0
    /\ providerUp = TRUE
    /\ nearest = NoNearest
    /\ call = NoCall
    /\ analyzed = <<>>
    /\ consensus_events = <<>>

\* A question has just been created from the dashboard.
EngineInit ==
    /\ messages = <<>>
    /\ summary = [m \in MsgIds |-> NoLabel]
    /\ classification = [m \in MsgIds |-> None]
    /\ participants = [a \in Authors |-> 0]
    /\ clusters = <<>>
    /\ unassigned_buffer = <<>>
    /\ two_word_summaries = {}
    /\ epoch = 0
    /\ lastPass = <<>>
    /\ history = [i \in 1 .. NHist |-> i]
    /\ cache = {}
    /\ dirty = FALSE
    /\ hMsg = <<>>
    /\ hPc = <<>>
    /\ hStored = <<>>
    /\ hRef = <<>>
    /\ analysisPending = TRUE
    /\ apiTask = "idle"
    /\ bs = IdleBs
    /\ last_message_count = 0
    /\ bootCount = 0
    /\ restarts = 0
    /\ question_id = 1
    /\ hist = NoHist
    /\ diskOk = TRUE

Init == EngineInit /\ EvalIdle

\* ------------------------------------------------------------- helpers
Range(s) == {s[i] : i \in 1 .. Len(s)}

\* [x for x in s if x in S]
SelectIn(s, S) == SelectSeq(s, LAMBDA x : x \in S)

Count(s, x) == Cardinality({i \in 1 .. Len(s) : s[i] = x})

EmbsOf(ids) == [i \in 1 .. Len(ids) |-> EmbeddingOf(ContentOf(ids[i]))]
TextsOf(ids) == {ContentOf(ids[i]) : i \in 1 .. Len(ids)}

\* An assign_nearest whose comparison with the threshold is strict.
assign_nearest_strict(emb, cl, threshold) ==
    IF cl = <<>> THEN 0
    ELSE LET best == CHOOSE i \in 1 .. Len(cl) :
                 /\ \A j \in 1 .. Len(cl) : ~CosGreater(emb, cl[j].centroid.num, cl[i].centroid.num)
                 /\ \A j \in 1 .. (i - 1) : CosGreater(emb, cl[i].centroid.num, cl[j].centroid.num)
         IN  IF CosGT(emb, cl[best].centroid.num, threshold) THEN best ELSE 0

\* clustering.assign_nearest: index of the first most similar centroid if
\* its similarity reaches the threshold, else 0 (None).
assign_nearest(emb, cl, threshold) ==
    IF cl = <<>> THEN 0
    ELSE LET best == CHOOSE i \in 1 .. Len(cl) :
                 /\ \A j \in 1 .. Len(cl) : ~CosGreater(emb, cl[j].centroid.num, cl[i].centroid.num)
                 /\ \A j \in 1 .. (i - 1) : CosGreater(emb, cl[i].centroid.num, cl[j].centroid.num)
         IN  IF CosGE(emb, cl[best].centroid.num, threshold) THEN best ELSE 0

\* get_embeddings_batch / get_embedding: texts already cached need no
\* provider call; the call fails when a text is uncached and the provider
\* is unavailable, and then caches nothing.
NeedsProvider(texts) == ~(texts \subseteq cache)

\* ------------------------------------------------- bot: on_message task
\* The bot's loop is held by a task that is blocked in a provider call.
BotBusy == \E h \in 1 .. Len(hPc) : hPc[h] = "recompute"

\* The gateway delivers an event: a new message, or one delivered before
\* (a gateway replay).  discord.py creates one task per event.
Deliver(m) ==
    /\ UNCHANGED evalVars
    /\ Len(hMsg) < MaxLive
    /\ \/ m = NHist + Cardinality({x \in Range(hMsg) : x > NHist}) + 1
       \/ m \in Range(hMsg)
    /\ hMsg' = Append(hMsg, m)
    /\ hPc' = Append(hPc, "queued")
    /\ hStored' = Append(hStored, FALSE)
    /\ hRef' = Append(hRef, NoRef)
    /\ UNCHANGED <<discussion, history, cache, dirty, apiVars, restarts, question_id, hist, diskOk>>

\* check_message_relevance: similarity to the question >= NEW_MESSAGE_THRESHOLD
IsRelevant(m) ==
    CosGE(EmbeddingOf(ContentOf(m)), QuestionEmbedding, NEW_MESSAGE_THRESHOLD)

\* [m for m in q.discord_messages if m.message_id in c.message_ids]
MemberIds(message_ids) == SelectIn(messages, Range(message_ids))

\* classify_message at temperature 0: one answer per text.
SentimentOf(t) ==
    CASE t = 1 -> "good"
      [] t = 2 -> "good"
      [] t = 3 -> "bad"
      [] OTHER -> "neutral"

\* process_one, lines 27-30, for task h whose DiscordMessage object is the
\* stored one or not: the message is classified if it has no class yet
\* (okc: the classifier answers), then the state is saved.
ClassifyOne(h, stored, okc) ==
    LET m == hMsg[h]
    IN  /\ okc \/ (stored /\ classification[m] = None)
        /\ classification' = IF okc /\ stored /\ classification[m] = None
                             THEN [classification EXCEPT ![m] = SentimentOf(ContentOf(m))]
                             ELSE classification
        /\ hPc' = [hPc EXCEPT ![h] = "done"]
        /\ SaveReturns

\* An assign_message that files the id and leaves the label to the next pass.
assign_message_unlabelled(h, stored, cached, okc) ==
    LET m == hMsg[h]
        idx == assign_nearest(EmbeddingOf(ContentOf(m)), clusters, CLUSTER_ASSIGNMENT_THRESHOLD)
    IN  IF idx # 0
        THEN LET ids == Append(clusters[idx].message_ids, m)
                 members == MemberIds(ids)
                 embs == EmbsOf(members)
             IN  /\ summary' = summary
                 /\ unassigned_buffer' = unassigned_buffer
                 /\ IF ~(TextsOf(members) \subseteq cached)
                    THEN /\ okc
                         /\ clusters' = [clusters EXCEPT ![idx].message_ids = ids]
                         /\ hRef' = [hRef EXCEPT ![h] =
                                       [epoch |-> epoch, idx |-> idx, texts |-> members,
                                        ids0 |-> clusters[idx].message_ids,
                                        label0 |-> summary[m]]]
                         /\ hPc' = [hPc EXCEPT ![h] = "recompute"]
                         /\ dirty' = TRUE
                         /\ classification' = classification
                    ELSE /\ clusters' = [clusters EXCEPT
                              ![idx].message_ids = ids,
                              ![idx].centroid = centroid(embs),
                              ![idx].intra_sim = intra_similarity(embs)]
                         /\ hRef' = hRef
                         /\ ClassifyOne(h, stored, okc)
        ELSE /\ unassigned_buffer' = Append(unassigned_buffer, m)
             /\ summary' = summary
             /\ clusters' = clusters
             /\ hRef' = hRef
             /\ ClassifyOne(h, stored, okc)

\* cluster_manager.assign_message as process_one calls it for task h, with
\* `cached` the texts in the embedding cache: nearest cluster, membership
\* and label (lines 17-21), then the centroid and intra_sim at once when
\* every member text is cached, else after the provider call
\* (AssignRecompute); lines 26-28 when no cluster matches.
assign_message(h, stored, cached, okc) ==
    LET m == hMsg[h]
        idx == assign_nearest(EmbeddingOf(ContentOf(m)), clusters, CLUSTER_ASSIGNMENT_THRESHOLD)
    IN  IF idx # 0
        THEN LET ids == Append(clusters[idx].message_ids, m)
                 members == MemberIds(ids)
                 embs == EmbsOf(members)
             IN  /\ summary' = IF stored
                               THEN [summary EXCEPT ![m] = clusters[idx].label]
                               ELSE summary
                 /\ unassigned_buffer' = unassigned_buffer
                 /\ IF ~(TextsOf(members) \subseteq cached)
                    THEN /\ okc
                         /\ clusters' = [clusters EXCEPT ![idx].message_ids = ids]
                         /\ hRef' = [hRef EXCEPT ![h] =
                                       [epoch |-> epoch, idx |-> idx, texts |-> members,
                                        ids0 |-> clusters[idx].message_ids,
                                        label0 |-> summary[m]]]
                         /\ hPc' = [hPc EXCEPT ![h] = "recompute"]
                         /\ dirty' = TRUE
                         /\ classification' = classification
                    ELSE /\ clusters' = [clusters EXCEPT
                              ![idx].message_ids = ids,
                              ![idx].centroid = centroid(embs),
                              ![idx].intra_sim = intra_similarity(embs)]
                         /\ hRef' = hRef
                         /\ ClassifyOne(h, stored, okc)
        ELSE /\ unassigned_buffer' = Append(unassigned_buffer, m)
             /\ summary' = summary
             /\ clusters' = clusters
             /\ hRef' = hRef
             /\ ClassifyOne(h, stored, okc)

\* on_message that counts the author before the duplicate check.
OnMessageStartCounting(h, ok, okc) ==
    LET m == hMsg[h]
        texts == {ContentOf(m), QuestionText}
    IN  /\ UNCHANGED evalVars
        /\ h \in 1 .. Len(hMsg)
        /\ hPc[h] = "queued"
        /\ ~BotBusy
        /\ \A g \in 1 .. (h - 1) : hPc[g] # "queued"
        /\ ok \/ NeedsProvider(texts)
        /\ history' = IF m \in Range(history) THEN history ELSE Append(history, m)
        /\ IF ~ok
           THEN \* the relevance check raised: logged, nothing else happens
                /\ okc
                /\ hPc' = [hPc EXCEPT ![h] = "done"]
                /\ UNCHANGED <<discussion, cache, dirty, hStored, hRef>>
           ELSE /\ cache' = cache \cup texts
                /\ IF ~IsRelevant(m)
                   THEN /\ okc
                        /\ hPc' = [hPc EXCEPT ![h] = "done"]
                        /\ UNCHANGED <<discussion, dirty, hStored, hRef>>
                   ELSE IF m \in Range(messages)
                   THEN /\ assign_message(h, FALSE, cache \cup texts, okc)
                        /\ participants' = [participants EXCEPT ![AuthorOf(m)] = @ + 1]
                        /\ UNCHANGED <<messages, two_word_summaries, epoch, lastPass, hStored>>
                   ELSE /\ okc
                        /\ messages' = Append(messages, m)
                        /\ participants' = [participants EXCEPT ![AuthorOf(m)] = @ + 1]
                        /\ hStored' = [hStored EXCEPT ![h] = TRUE]
                        /\ hPc' = [hPc EXCEPT ![h] = "broadcast"]
                        /\ dirty' = TRUE
                        /\ UNCHANGED <<summary, classification, clusters, unassigned_buffer,
                                       two_word_summaries, epoch, lastPass, hRef>>
        /\ UNCHANGED <<hMsg, apiVars, restarts, question_id, hist, diskOk>>

\* on_message from its start to the first point where it leaves the loop:
\* the global history, the relevance check (ok: the provider answers),
\* add_message_to_active_question up to its broadcast await; for a message
\* already stored, which add_message_to_active_question skips, straight on
\* to process_one.
OnMessageStart(h, ok, okc) ==
    LET m == hMsg[h]
        texts == {ContentOf(m), QuestionText}
    IN  /\ UNCHANGED evalVars
        /\ h \in 1 .. Len(hMsg)
        /\ hPc[h] = "queued"
        /\ ~BotBusy
        /\ \A g \in 1 .. (h - 1) : hPc[g] # "queued"
        /\ ok \/ NeedsProvider(texts)
        /\ history' = IF m \in Range(history) THEN history ELSE Append(history, m)
        /\ IF ~ok
           THEN \* the relevance check raised: logged, nothing else happens
                /\ okc
                /\ hPc' = [hPc EXCEPT ![h] = "done"]
                /\ UNCHANGED <<discussion, cache, dirty, hStored, hRef>>
           ELSE /\ cache' = cache \cup texts
                /\ IF ~IsRelevant(m)
                   THEN /\ okc
                        /\ hPc' = [hPc EXCEPT ![h] = "done"]
                        /\ UNCHANGED <<discussion, dirty, hStored, hRef>>
                   ELSE IF m \in Range(messages)
                   THEN /\ assign_message(h, FALSE, cache \cup texts, okc)
                        /\ UNCHANGED <<messages, participants, two_word_summaries, epoch, lastPass,
                                       hStored>>
                   ELSE /\ okc
                        /\ messages' = Append(messages, m)
                        /\ participants' = [participants EXCEPT ![AuthorOf(m)] = @ + 1]
                        /\ hStored' = [hStored EXCEPT ![h] = TRUE]
                        /\ hPc' = [hPc EXCEPT ![h] = "broadcast"]
                        /\ dirty' = TRUE
                        /\ UNCHANGED <<summary, classification, clusters, unassigned_buffer,
                                       two_word_summaries, epoch, lastPass, hRef>>
        /\ UNCHANGED <<hMsg, apiVars, restarts, question_id, hist, diskOk>>

\* The broadcast await returns: add_message_to_active_question saves, then
\* process_one runs.
AfterBroadcast(h, okc) ==
    /\ UNCHANGED evalVars
    /\ h \in 1 .. Len(hMsg)
    /\ hPc[h] = "broadcast"
    /\ ~BotBusy
    /\ assign_message(h, TRUE, cache, okc)
    /\ UNCHANGED <<messages, participants, two_word_summaries, epoch, lastPass, history, cache,
                   hMsg, hStored, apiVars, restarts, question_id, hist, diskOk>>

\* assign_message, lines 23-28: the batch call returns (ok) or raises; then
\* the rest of process_one.
AssignRecompute(h, ok, okc) ==
    LET r == hRef[h]
        embs == EmbsOf(r.texts)
    IN  /\ UNCHANGED evalVars
        /\ h \in 1 .. Len(hMsg)
        /\ hPc[h] = "recompute"
        /\ IF ok
           THEN /\ cache' = cache \cup TextsOf(r.texts)
                /\ clusters' = IF r.epoch = epoch
                               THEN [clusters EXCEPT
                                       ![r.idx].centroid = centroid(embs),
                                       ![r.idx].intra_sim = intra_similarity(embs)]
                               ELSE clusters
                /\ ClassifyOne(h, hStored[h], okc)
           ELSE \* the exception reaches on_message, which logs it
                /\ okc
                /\ hPc' = [hPc EXCEPT ![h] = "done"]
                /\ UNCHANGED <<cache, clusters, classification, dirty>>
        /\ hRef' = [hRef EXCEPT ![h] = NoRef]
        /\ UNCHANGED <<messages, summary, participants, unassigned_buffer,
                       two_word_summaries, epoch, lastPass, history, hMsg, hStored, apiVars, restarts, question_id, hist, diskOk>>

\* ------------------------------------------------------ bootstrap: KMeans
Min(a, b) == IF a < b THEN a ELSE b

IndicesOf(f, n, g) == {i \in 1 .. n : f[i] = g}

\* Squared distance of point p to the mean of a group (sum S, size c),
\* times c * c.
Dist2Scaled(p, S, c) == Norm2(p) * c * c - 2 * c * Dot(p, S) + Norm2(S)

GroupSum(embs, I) ==
    LET RECURSIVE S(_)
        S(J) == IF J = {} THEN <<0, 0>>
                ELSE LET i == CHOOSE x \in J : TRUE
                         r == S(J \ {i})
                     IN  <<embs[i][1] + r[1], embs[i][2] + r[2]>>
    IN  S(I)

\* Group numberings of the points in which equal points share a group and
\* groups are numbered, from 0, by their first member.
RECURSIVE Numberings(_, _)
Numberings(embs, k) ==
    IF embs = <<>> THEN {<<>>}
    ELSE LET n == Len(embs)
             Same == {j \in 1 .. (n - 1) : embs[j] = embs[n]}
             Choices(f) == IF Same # {} THEN {f[CHOOSE j \in Same : TRUE]}
                        ELSE 0 .. Min(Cardinality(Range(f)), k - 1)
         IN  UNION {{Append(f, g) : g \in Choices(f)} : f \in Numberings(SubSeq(embs, 1, n - 1), k)}

\* KMeans(n_clusters = k).fit_predict on the normalised vectors: a
\* partition into min(k, number of distinct points) groups in which equal
\* points share a group and every point is nearest to its own group's
\* mean.  The seed fixes which such partition and which numbering comes
\* out; groups are numbered here by their first member.
KMeansResults(embs, k) ==
    LET n == Len(embs)
    IN  {f \in Numberings(embs, k) :
           /\ Cardinality(Range(f)) = Min(k, Cardinality(Range(embs)))
           /\ Cardinality(Range(embs)) <= k \/ \A i \in 1 .. n : \A g \in Range(f) :
                LET I == IndicesOf(f, n, f[i])
                    J == IndicesOf(f, n, g)
                IN  Dist2Scaled(embs[i], GroupSum(embs, I), Cardinality(I))
                      * Cardinality(J) * Cardinality(J)
                    <= Dist2Scaled(embs[i], GroupSum(embs, J), Cardinality(J))
                      * Cardinality(I) * Cardinality(I)}

\* ---------------------------------------------- bootstrap: label carry-over
Overlap(ids, c) == Cardinality(ids \cap Range(c.message_ids))
MinSize(ids, c) == Min(Cardinality(ids), Cardinality(Range(c.message_ids)))

\* overlap_ratio > 0.5
Overlaps(ids, c) ==
    /\ MinSize(ids, c) > 0
    /\ Overlap(ids, c) * 100 > OVERLAP_RATIO_MIN * MinSize(ids, c)

\* The loop of lines 86-95 from existing cluster i on, with the greatest
\* ratio so far (best, as overlap over min_size) and the cluster that has
\* it (matching, 0 for None), for the threshold of line 93 taken as
\* inclusive or strict.
RECURSIVE MatchLoop(_, _, _, _, _, _)
MatchLoop(ids, cl, i, best, matching, inclusive) ==
    IF i > Len(cl) THEN matching
    ELSE LET overlap == Overlap(ids, cl[i])
             min_size == MinSize(ids, cl[i])
             above == IF inclusive
                      THEN overlap * 100 >= OVERLAP_RATIO_MIN * min_size
                      ELSE overlap * 100 > OVERLAP_RATIO_MIN * min_size
         IN  IF min_size > 0 /\ above /\ overlap * best.den > best.num * min_size
             THEN MatchLoop(ids, cl, i + 1, [num |-> overlap, den |-> min_size], i, inclusive)
             ELSE MatchLoop(ids, cl, i + 1, best, matching, inclusive)

\* A carry-over that takes an overlap of exactly one half as well.
matching_existing_inclusive(ids, cl) ==
    MatchLoop(ids, cl, 1, [num |-> 0, den |-> 1], 0, TRUE)

\* The existing cluster a new group takes its label from (lines 82-98):
\* its index in q.clusters, 0 when there is none.
matching_existing(ids, cl) ==
    MatchLoop(ids, cl, 1, [num |-> 0, den |-> 1], 0, FALSE)

\* The messages of group cid of the pass, in list order.
GroupMessages(b, cid) ==
    SelectIn(SubSeq(messages, 1, b.n), {messages[i] : i \in IndicesOf(b.part, b.n, cid)})

\* A cluster object made without its members.
NewClusterHollow(label, ids) ==
    [label |-> label, message_ids |-> <<>>,
     centroid |-> centroid(EmbsOf(ids)), intra_sim |-> intra_similarity(EmbsOf(ids))]

NewCluster(label, ids) ==
    [label |-> label, message_ids |-> ids,
     centroid |-> centroid(EmbsOf(ids)), intra_sim |-> intra_similarity(EmbsOf(ids))]

\* A loop that asks the label generator for every group.
RECURSIVE AdvanceFresh(_)
AdvanceFresh(b) ==
    IF b.cid = CLUSTER_MAX_COUNT THEN [b EXCEPT !.pc = "commit"]
    ELSE IF GroupMessages(b, b.cid) = <<>> THEN AdvanceFresh([b EXCEPT !.cid = @ + 1])
    ELSE [b EXCEPT !.pc = "label"]

\* The loop over cluster_id from b.cid on, up to the next label-generator
\* call or the end of the loop: empty groups are skipped, a group that
\* overlaps an existing cluster takes that cluster's label.
RECURSIVE Advance(_)
Advance(b) ==
    IF b.cid = CLUSTER_MAX_COUNT THEN [b EXCEPT !.pc = "commit"]
    ELSE LET ids == GroupMessages(b, b.cid)
             match == matching_existing(Range(ids), clusters)
         IN  IF ids = <<>> THEN Advance([b EXCEPT !.cid = @ + 1])
             ELSE IF match # 0
             THEN Advance([b EXCEPT !.cid = @ + 1,
                                    !.gen = Append(@, clusters[match].label),
                                    !.new = Append(@, NewCluster(clusters[match].label, ids))])
             ELSE [b EXCEPT !.pc = "label"]

\* The member most similar to the centroid: np.argsort(similarities)[::-1][0]
\* (among equals, the later one).
TopMessage(ids) ==
    LET c == centroid(EmbsOf(ids)).num
        e(i) == EmbeddingOf(ContentOf(ids[i]))
    IN  ids[CHOOSE i \in 1 .. Len(ids) :
              /\ \A j \in 1 .. Len(ids) : ~CosGreater(c, e(j), e(i))
              /\ \A j \in (i + 1) .. Len(ids) : CosGreater(c, e(i), e(j))]

\* meaningful_words[0].capitalize() of the joined label texts.
Distinguisher(ids) == Capitalize(FirstWordOf(ContentOf(TopMessage(ids))))

\* A pass that appended each finished group to q.clusters as it went.
CommitOrContinueInPlace(b, task) ==
    /\ clusters' = b.new
    /\ epoch' = IF b.pc = "commit" THEN epoch + 1 ELSE epoch
    /\ lastPass' = IF b.pc = "commit" THEN b.new ELSE lastPass
    /\ bs' = IF b.pc = "commit" THEN IdleBs ELSE b
    /\ apiTask' = IF b.pc # "commit" THEN task
                  ELSE IF task = "process_all" THEN "classify_all" ELSE "idle"
    /\ SaveReturns
    /\ UNCHANGED <<summary, two_word_summaries, unassigned_buffer>>

\* Lines 200-217: the cluster list is replaced, the stored messages are
\* relabelled, the buffer is emptied, the state is saved; or the pass goes
\* on waiting for its next label.
CommitOrContinue(b, task) ==
    IF b.pc = "commit"
    THEN /\ clusters' = b.new
         /\ epoch' = epoch + 1
         /\ lastPass' = b.new
         /\ summary' = [m \in MsgIds |->
                IF m \in Range(messages) /\ \E i \in 1 .. Len(b.new) : m \in Range(b.new[i].message_ids)
                THEN b.new[CHOOSE i \in 1 .. Len(b.new) :
                             /\ m \in Range(b.new[i].message_ids)
                             /\ \A j \in (i + 1) .. Len(b.new) : m \notin Range(b.new[j].message_ids)].label
                ELSE summary[m]]
         /\ two_word_summaries' = {b.new[i].label : i \in 1 .. Len(b.new)}
         /\ unassigned_buffer' = <<>>
         /\ SaveReturns
         /\ bs' = IdleBs
         /\ apiTask' = IF task = "process_all" THEN "classify_all" ELSE "idle"
    ELSE /\ bs' = b
         /\ apiTask' = task
         /\ UNCHANGED <<clusters, epoch, lastPass, summary, two_word_summaries, unassigned_buffer, dirty>>

\* bootstrap_fixed_kmeans, lines 36-61 and the loop up to its first label
\* call; the caller has checked that the pass is to run.
BootstrapBegin(ok, task) ==
    /\ bootCount < MaxBoot
    /\ Len(messages) >= CLUSTER_MAX_COUNT
    /\ ok \/ NeedsProvider(TextsOf(messages))
    /\ bootCount' = bootCount + 1
    /\ IF ok
       THEN /\ cache' = cache \cup TextsOf(messages)
            /\ \E f \in KMeansResults(EmbsOf(messages), CLUSTER_MAX_COUNT) :
                 \E b \in {Advance([pc |-> "group", n |-> Len(messages), part |-> f,
                                    cid |-> 0, new |-> <<>>, gen |-> <<>>])} :
                    CommitOrContinue(b, task)
       ELSE \* get_embeddings_batch raised
            /\ bs' = IdleBs
            /\ apiTask' = "idle"
            /\ UNCHANGED <<clusters, epoch, lastPass, summary, two_word_summaries, unassigned_buffer,
                           dirty, cache>>
    /\ UNCHANGED <<messages, classification, participants, history, botVars, restarts, question_id, hist, diskOk>>

\* ------------------------------------------------------ API loop tasks
\* analyze_historical_messages_for_question: the stored history that is
\* relevant to the question joins the Discussion in one go.
IsRelevantHistorical(m) ==
    CosGE(EmbeddingOf(ContentOf(m)), QuestionEmbedding, HISTORICAL_MESSAGE_THRESHOLD)

AnalyzeHistorical(ok) ==
    LET candidates == SelectIn(history, Range(history) \ Range(messages))
        relevant == SelectIn(candidates, {m \in Range(candidates) : IsRelevantHistorical(m)})
        texts == TextsOf(candidates) \cup {QuestionText}
        RECURSIVE Counted(_, _)
        Counted(p, ms) == IF ms = <<>> THEN p
                          ELSE Counted([p EXCEPT ![AuthorOf(ms[1])] = @ + 1], Tail(ms))
    IN  /\ UNCHANGED evalVars
        /\ analysisPending
        /\ apiTask = "idle"
        /\ analysisPending' = FALSE
        /\ IF candidates = <<>>
           THEN /\ ok
                /\ apiTask' = "process_all"
                /\ UNCHANGED <<messages, participants, cache, dirty>>
           ELSE /\ ok \/ NeedsProvider(texts)
                /\ IF ok
                   THEN /\ cache' = cache \cup texts
                        /\ messages' = messages \o relevant
                        /\ participants' = Counted(participants, relevant)
                        /\ IF relevant = <<>> THEN dirty' = dirty ELSE SaveReturns
                        /\ apiTask' = "process_all"
                   ELSE \* the exception is logged; process_all does not run
                        /\ apiTask' = "idle"
                        /\ UNCHANGED <<messages, participants, cache, dirty>>
        /\ UNCHANGED <<summary, classification, clusters, unassigned_buffer, two_word_summaries,
                       epoch, lastPass, history, botVars, bs, last_message_count, bootCount, restarts, question_id, hist, diskOk>>

\* process_all, lines 8-12: bootstrap when the Discussion has no clusters.
ProcessAllStart(ok) ==
    /\ UNCHANGED evalVars
    /\ apiTask = "process_all"
    /\ bs.pc = "idle"
    /\ IF messages = <<>>
       THEN /\ ok
            /\ apiTask' = "idle"
            /\ UNCHANGED <<discussion, history, cache, dirty, botVars, analysisPending, bs,
                           bootCount, restarts, question_id, hist, diskOk>>
       ELSE IF clusters # <<>> \/ Len(messages) < CLUSTER_MAX_COUNT
       THEN /\ ok
            /\ apiTask' = "classify_all"
            /\ UNCHANGED <<discussion, history, cache, dirty, botVars, analysisPending, bs,
                           bootCount, restarts, question_id, hist, diskOk>>
       ELSE /\ BootstrapBegin(ok, "process_all")
            /\ UNCHANGED analysisPending
    /\ UNCHANGED last_message_count

\* process_all, lines 14-22: every stored message without a class is
\* classified; a failing call ends the task.
ProcessAllClassify(ok) ==
    /\ UNCHANGED evalVars
    /\ apiTask = "classify_all"
    /\ ok \/ \E m \in Range(messages) : classification[m] = None
    /\ IF ok
       THEN /\ classification' = [m \in MsgIds |->
                  IF m \in Range(messages) /\ classification[m] = None
                  THEN SentimentOf(ContentOf(m)) ELSE classification[m]]
            /\ SaveReturns
       ELSE UNCHANGED <<classification, dirty>>
    /\ apiTask' = "idle"
    /\ UNCHANGED <<messages, summary, participants, clusters, unassigned_buffer,
                   two_word_summaries, epoch, lastPass, history, cache, botVars, analysisPending, bs,
                   last_message_count, bootCount, restarts, question_id, hist, diskOk>>

\* An iteration of a loop that runs at every interval, whatever the count.
PeriodicTickEveryInterval(ok) ==
    /\ UNCHANGED evalVars
    /\ apiTask = "idle"
    /\ messages # <<>>
    /\ last_message_count' = Len(messages)
    /\ IF Len(messages) >= PERIODIC_MIN_MESSAGES
       THEN BootstrapBegin(ok, "periodic")
       ELSE /\ ok
            /\ UNCHANGED <<discussion, history, cache, dirty, botVars, apiTask, bs, bootCount,
                           restarts, question_id, hist, diskOk>>
    /\ UNCHANGED analysisPending

\* An iteration of the loop run from a second thread, which does not wait
\* for the API loop's running task to return.
PeriodicTickAnyTime(ok) ==
    /\ UNCHANGED evalVars
    /\ messages # <<>>
    /\ Len(messages) # last_message_count
    /\ last_message_count' = Len(messages)
    /\ IF Len(messages) >= PERIODIC_MIN_MESSAGES
       THEN BootstrapBegin(ok, "periodic")
       ELSE /\ ok
            /\ UNCHANGED <<discussion, history, cache, dirty, botVars, apiTask, bs, bootCount,
                           restarts, question_id, hist, diskOk>>
    /\ UNCHANGED analysisPending

\* One iteration of periodic_clustering that does not just sleep: the
\* message count changed since the last one.  The loop is a coroutine of
\* the API loop, and neither it nor process_all reaches the loop's
\* scheduler inside a pass (the provider and generator clients are
\* synchronous), so an iteration begins only when no task is running.
\* A loop that starts its pass before it looks at the message count.
PeriodicTickEager(ok) ==
    /\ UNCHANGED evalVars
    /\ apiTask = "idle"
    /\ messages # <<>>
    /\ Len(messages) # last_message_count
    /\ last_message_count' = Len(messages)
    /\ IF Len(messages) >= PERIODIC_MIN_MESSAGES
       THEN BootstrapBegin(ok, "periodic")
       ELSE /\ ok
            /\ bootCount < MaxBoot
            /\ bootCount' = bootCount + 1
            /\ UNCHANGED <<discussion, history, cache, dirty, botVars, apiTask, bs,
                           restarts, question_id, hist, diskOk>>
    /\ UNCHANGED analysisPending

PeriodicTick(ok) ==
    /\ UNCHANGED evalVars
    /\ apiTask = "idle"
    /\ messages # <<>>
    /\ Len(messages) # last_message_count
    /\ last_message_count' = Len(messages)
    /\ IF Len(messages) >= PERIODIC_MIN_MESSAGES
       THEN BootstrapBegin(ok, "periodic")
       ELSE /\ ok
            /\ UNCHANGED <<discussion, history, cache, dirty, botVars, apiTask, bs, bootCount,
                           restarts, question_id, hist, diskOk>>
    /\ UNCHANGED analysisPending

\* The retry loop, lines 112-182, for the generator's answers outs[1],
\* outs[2], ...: an answer that is no duplicate (case-insensitive) of and
\* not too similar to a label of this pass is taken; the last attempt's
\* answer is taken with the distinguishing word appended.
RECURSIVE LabelLoop(_, _, _, _)
LabelLoop(outs, attempt, generated_labels, ids) ==
    LET candidate_label == outs[attempt + 1]
        dup == Lower(candidate_label) \in
                 {Lower(generated_labels[i]) : i \in 1 .. Len(generated_labels)}
        similar == ~dup /\ generated_labels # <<>>
                        /\ TooSimilar(candidate_label, generated_labels)
    IN  IF ~dup /\ ~similar THEN candidate_label
        ELSE IF attempt = MAX_ATTEMPTS - 1
        THEN Append(candidate_label, Distinguisher(ids))
        ELSE LabelLoop(outs, attempt + 1, generated_labels, ids)

\* The labels the retry loop can end with for the group the pass stands at.
LoopLabels ==
    IF bs.pc = "label"
    THEN {LabelLoop(outs, 0, bs.gen, GroupMessages(bs, bs.cid)) :
            outs \in [1 .. MAX_ATTEMPTS -> GenOut]}
    ELSE {}

\* The group the loop stands at gets its label, one of LoopLabels, and the
\* loop goes on to the next generator call or to the end of the pass.
LabelGroup(label) ==
    LET ids == GroupMessages(bs, bs.cid)
        closed == [bs EXCEPT !.cid = @ + 1, !.gen = Append(@, label),
                             !.new = Append(@, NewCluster(label, ids))]
    IN  /\ UNCHANGED evalVars
        /\ bs.pc = "label"
        /\ \E b \in {Advance(closed)} : CommitOrContinue(b, apiTask)
        /\ UNCHANGED <<messages, classification, participants, history, cache, botVars,
                       analysisPending, last_message_count, bootCount, restarts, question_id, hist, diskOk>>

\* The generator, or the provider embedding the labels for the similarity
\* check, is unavailable: the pass ends with the exception.
LabelFails ==
    /\ UNCHANGED evalVars
    /\ bs.pc = "label"
    /\ bs' = IdleBs
    /\ apiTask' = "idle"
    /\ UNCHANGED <<discussion, history, cache, dirty, botVars, analysisPending,
                   last_message_count, bootCount, restarts, question_id, hist, diskOk>>

\* d.get(key, default) of a JSON object read back from the file.
Get(d, key, default) == IF key \in DOMAIN d THEN d[key] ELSE default

\* The document save_all_questions writes for the Discussion as it stands
\* (lines 225-275): one object per message, per participant and per
\* cluster, under the keys of the source.
ActiveQuestionCache ==
    [active_question |->
       [question_id |-> question_id,
        discord_messages |->
           [i \in 1 .. Len(messages) |->
              [message_id |-> messages[i],
               user_id |-> AuthorOf(messages[i]),
               content |-> ContentOf(messages[i]),
               two_word_summary |-> summary[messages[i]],
               classification |-> classification[messages[i]]]],
        participants |->
           [a \in {x \in Authors : participants[x] > 0} |->
              [user_id |-> a, message_count |-> participants[a]]],
        two_word_summaries |-> two_word_summaries,
        clusters |->
           [i \in 1 .. Len(clusters) |->
              [label |-> clusters[i].label,
               centroid |-> clusters[i].centroid,
               message_ids |-> clusters[i].message_ids,
               intra_sim |-> clusters[i].intra_sim]],
        unassigned_buffer |-> unassigned_buffer]]

\* The migration branch of load_all_questions (lines 389-423), which
\* restores the messages and starts with no cluster and an empty buffer.
load_all_questions_migrated(cache_data) ==
    LET question_data == cache_data.active_question
        msgs == Get(question_data, "discord_messages", <<>>)
        ps == Get(question_data, "participants", <<>>)
        at(m) == msgs[CHOOSE i \in 1 .. Len(msgs) : msgs[i].message_id = m]
        stored(m) == \E i \in 1 .. Len(msgs) : msgs[i].message_id = m
    IN  [question_id |-> question_data.question_id,
         messages |-> [i \in 1 .. Len(msgs) |-> msgs[i].message_id],
         summary |-> [m \in MsgIds |->
                        IF stored(m) THEN Get(at(m), "two_word_summary", NoLabel) ELSE NoLabel],
         classification |-> [m \in MsgIds |->
                        IF stored(m) THEN Get(at(m), "classification", None) ELSE None],
         participants |-> [a \in Authors |->
                        IF a \in DOMAIN ps THEN Get(ps[a], "message_count", 0) ELSE 0],
         two_word_summaries |-> Get(question_data, "two_word_summaries", {}),
         clusters |-> <<>>,
         unassigned_buffer |-> <<>>]

\* load_all_questions, lines 294-360, of the document cache_data: the
\* QuestionState it makes the active one.
load_all_questions(cache_data) ==
    LET question_data == cache_data.active_question
        msgs == Get(question_data, "discord_messages", <<>>)
        ps == Get(question_data, "participants", <<>>)
        cs == Get(question_data, "clusters", <<>>)
        at(m) == msgs[CHOOSE i \in 1 .. Len(msgs) : msgs[i].message_id = m]
        stored(m) == \E i \in 1 .. Len(msgs) : msgs[i].message_id = m
    IN  [question_id |-> question_data.question_id,
         messages |-> [i \in 1 .. Len(msgs) |-> msgs[i].message_id],
         summary |-> [m \in MsgIds |->
                        IF stored(m) THEN Get(at(m), "two_word_summary", NoLabel) ELSE NoLabel],
         classification |-> [m \in MsgIds |->
                        IF stored(m) THEN Get(at(m), "classification", None) ELSE None],
         participants |-> [a \in Authors |->
                        IF a \in DOMAIN ps THEN Get(ps[a], "message_count", 0) ELSE 0],
         two_word_summaries |-> Get(question_data, "two_word_summaries", {}),
         clusters |-> [i \in 1 .. Len(cs) |->
                        [label |-> cs[i].label,
                         message_ids |-> cs[i].message_ids,
                         centroid |-> cs[i].centroid,
                         intra_sim |-> Get(cs[i], "intra_sim", Rat(0, 1))]],
         unassigned_buffer |-> Get(question_data, "unassigned_buffer", <<>>)]

\* The process is restarted from its files: the Discussion as
\* load_all_questions reads it from the file last saved, the embedding
\* cache file lost or unreadable (_save_embeddings_cache and
\* _load_embeddings_cache swallow their errors), no task in flight.
Restart ==
    LET state == load_all_questions(ActiveQuestionCache)
    IN  /\ UNCHANGED evalVars
        /\ restarts < MaxRestart
        /\ ~dirty
        /\ messages # <<>>
        /\ restarts' = restarts + 1
        /\ question_id' = state.question_id
        /\ messages' = state.messages
        /\ summary' = state.summary
        /\ classification' = state.classification
        /\ participants' = state.participants
        /\ two_word_summaries' = state.two_word_summaries
        /\ clusters' = state.clusters
        /\ unassigned_buffer' = state.unassigned_buffer
        /\ cache' = {}
        /\ hPc' = [h \in 1 .. Len(hPc) |-> "done"]
        /\ hRef' = [h \in 1 .. Len(hRef) |-> NoRef]
        /\ analysisPending' = FALSE
        /\ apiTask' = "idle"
        /\ bs' = IdleBs
        /\ last_message_count' = 0
        /\ UNCHANGED <<epoch, lastPass, history, dirty, hMsg, hStored, bootCount, hist, diskOk>>

\* One process lifetime: the embedding cache only grows, so the batch call
\* of assign_message never reaches the provider.
Next ==
    \/ \E m \in MsgIds : Deliver(m)
    \/ \E h \in 1 .. MaxLive, ok \in BOOLEAN, okc \in BOOLEAN : OnMessageStart(h, ok, okc)
    \/ \E h \in 1 .. MaxLive, okc \in BOOLEAN : AfterBroadcast(h, okc)
    \/ \E ok \in BOOLEAN : AnalyzeHistorical(ok)
    \/ \E ok \in BOOLEAN : ProcessAllStart(ok)
    \/ \E ok \in BOOLEAN : ProcessAllClassify(ok)
    \/ \E ok \in BOOLEAN : PeriodicTick(ok)
    \/ \E label \in LoopLabels : LabelGroup(label)
    \/ LabelFails

Spec == Init /\ [][Next]_vars

\* get_question_state(question_id): the active Discussion when the id is
\* its id, else None.
get_question_state(qid) == IF question_id = qid THEN qid ELSE None

\* A create_question_state that hands the old Discussion's buffer on to
\* the new one.
CreateQuestionKeepingBuffer ==
    /\ UNCHANGED evalVars
    /\ question_id < MaxQuestions
    /\ bootCount = MaxBoot
    /\ apiTask = "idle"
    /\ ~analysisPending
    /\ question_id' = question_id + 1
    /\ messages' = <<>>
    /\ participants' = [a \in Authors |-> 0]
    /\ clusters' = <<>>
    /\ two_word_summaries' = {}
    /\ epoch' = epoch + 1
    /\ lastPass' = <<>>
    /\ SaveReturns
    /\ analysisPending' = TRUE
    /\ UNCHANGED <<summary, classification, unassigned_buffer, history, cache, botVars,
                   apiTask, bs, last_message_count, bootCount, restarts, hist, diskOk>>

\* POST /questions: create_question_state makes a new QuestionState the
\* active one, save_all_questions writes it, and the historical analysis
\* is scheduled.  The handler runs on the API loop, between its tasks; the
\* on_message tasks of the bot's thread stay where they are.  The message
\* objects keep their fields.  The question is asked after the passes the
\* bound allows, so the second Discussion is the bot's alone.
CreateQuestion ==
    /\ UNCHANGED evalVars
    /\ question_id < MaxQuestions
    /\ bootCount = MaxBoot
    /\ apiTask = "idle"
    /\ ~analysisPending
    /\ question_id' = question_id + 1
    /\ messages' = <<>>
    /\ participants' = [a \in Authors |-> 0]
    /\ clusters' = <<>>
    /\ unassigned_buffer' = <<>>
    /\ two_word_summaries' = {}
    /\ epoch' = epoch + 1
    /\ lastPass' = <<>>
    /\ SaveReturns
    /\ analysisPending' = TRUE
    /\ UNCHANGED <<summary, classification, history, cache, botVars, apiTask, bs,
                   last_message_count, bootCount, restarts, hist, diskOk>>

\* The engine with a second question asked.
NextCreate ==
    \/ Next
    \/ CreateQuestion

SpecCreate == Init /\ [][NextCreate]_vars

\* ------------------------------------- the two adding paths, by thread
\* The bot's loop and the API loop run in two threads, and the interpreter
\* can switch threads between the duplicate check and the append of either
\* adding path.  Here each path is taken a check and an append at a time.

\* No on_message task stands between its duplicate check and its append
\* (the bot's tasks share one loop and do not interleave there).
BotAtomic == \A g \in 1 .. Len(hPc) : hPc[g] # "append"

\* on_message up to the duplicate check of add_message_to_active_question
\* (state.py lines 490-491): as OnMessageStart, with the append still to do.
LiveCheck(h, ok, okc) ==
    LET m == hMsg[h]
        texts == {ContentOf(m), QuestionText}
    IN  /\ UNCHANGED evalVars
        /\ h \in 1 .. Len(hMsg)
        /\ hPc[h] = "queued"
        /\ ~BotBusy /\ BotAtomic
        /\ \A g \in 1 .. (h - 1) : hPc[g] # "queued"
        /\ ok \/ NeedsProvider(texts)
        /\ history' = IF m \in Range(history) THEN history ELSE Append(history, m)
        /\ IF ~ok
           THEN /\ okc
                /\ hPc' = [hPc EXCEPT ![h] = "done"]
                /\ UNCHANGED <<discussion, cache, dirty, hStored, hRef>>
           ELSE /\ cache' = cache \cup texts
                /\ IF ~IsRelevant(m)
                   THEN /\ okc
                        /\ hPc' = [hPc EXCEPT ![h] = "done"]
                        /\ UNCHANGED <<discussion, dirty, hStored, hRef>>
                   ELSE IF m \in Range(messages)
                   THEN /\ assign_message(h, FALSE, cache \cup texts, okc)
                        /\ UNCHANGED <<messages, participants, two_word_summaries, epoch, lastPass,
                                       hStored>>
                   ELSE /\ okc
                        /\ hPc' = [hPc EXCEPT ![h] = "append"]
                        /\ UNCHANGED <<discussion, dirty, hStored, hRef>>
        /\ UNCHANGED <<hMsg, apiVars, restarts, question_id, hist, diskOk>>

\* state.py lines 493-502: the append and the participant count; the task
\* then waits in the broadcast.
LiveAppend(h) ==
    LET m == hMsg[h]
    IN  /\ UNCHANGED evalVars
        /\ h \in 1 .. Len(hMsg)
        /\ hPc[h] = "append"
        /\ messages' = Append(messages, m)
        /\ participants' = [participants EXCEPT ![AuthorOf(m)] = @ + 1]
        /\ hStored' = [hStored EXCEPT ![h] = TRUE]
        /\ hPc' = [hPc EXCEPT ![h] = "broadcast"]
        /\ dirty' = TRUE
        /\ UNCHANGED <<summary, classification, clusters, unassigned_buffer,
                       two_word_summaries, epoch, lastPass, history, cache, hMsg, hRef, apiVars,
                       restarts, question_id, hist, diskOk>>

\* analyze_historical_messages_for_question, lines 60-91: the candidates,
\* their embeddings and the question's (ok: the provider answers), the
\* relevant ones.
HistRelevant(ok) ==
    LET candidates == SelectIn(history, Range(history) \ Range(messages))
        relevant == SelectIn(candidates, {m \in Range(candidates) : IsRelevantHistorical(m)})
        texts == TextsOf(candidates) \cup {QuestionText}
    IN  /\ UNCHANGED evalVars
        /\ analysisPending
        /\ apiTask = "idle"
        /\ analysisPending' = FALSE
        /\ IF candidates = <<>>
           THEN /\ ok
                /\ apiTask' = "process_all"
                /\ UNCHANGED <<cache, hist>>
           ELSE /\ ok \/ NeedsProvider(texts)
                /\ IF ok
                   THEN /\ cache' = cache \cup texts
                        /\ hist' = [rest |-> relevant, checked |-> FALSE]
                        /\ apiTask' = "adding"
                   ELSE /\ apiTask' = "idle"
                        /\ UNCHANGED <<cache, hist>>
        /\ UNCHANGED <<discussion, history, dirty, botVars, bs, last_message_count, bootCount,
                       restarts, question_id, diskOk>>

\* Line 98: the second duplicate check, for the next relevant message; at
\* the end of the list the state is saved (lines 111-113) and process_all
\* is next.
HistCheck ==
    /\ UNCHANGED evalVars
    /\ apiTask = "adding"
    /\ ~hist.checked
    /\ IF hist.rest = <<>>
       THEN /\ apiTask' = "process_all"
            /\ SaveReturns
            /\ hist' = NoHist
       ELSE /\ hist' = IF Head(hist.rest) \in Range(messages)
                       THEN [hist EXCEPT !.rest = Tail(@)]
                       ELSE [hist EXCEPT !.checked = TRUE]
            /\ UNCHANGED <<apiTask, dirty>>
    /\ UNCHANGED <<discussion, history, cache, botVars, analysisPending, bs,
                   last_message_count, bootCount, restarts, question_id, diskOk>>

\* Lines 99-109: the append and the participant count.
HistAppend ==
    LET m == Head(hist.rest)
    IN  /\ UNCHANGED evalVars
        /\ apiTask = "adding"
        /\ hist.checked
        /\ messages' = Append(messages, m)
        /\ participants' = [participants EXCEPT ![AuthorOf(m)] = @ + 1]
        /\ hist' = [rest |-> Tail(hist.rest), checked |-> FALSE]
        /\ UNCHANGED <<summary, classification, clusters, unassigned_buffer,
                       two_word_summaries, epoch, lastPass, history, cache, dirty, botVars, apiVars,
                       restarts, question_id, diskOk>>

\* LabelGroup with the end of the pass taken a thread switch at a time:
\* line 201 replaces the cluster list; lines 202-203 print, and the bot's
\* thread can run before lines 206-217.
LabelGroupReplace(label) ==
    LET ids == GroupMessages(bs, bs.cid)
        closed == [bs EXCEPT !.cid = @ + 1, !.gen = Append(@, label),
                             !.new = Append(@, NewCluster(label, ids))]
        b == Advance(closed)
    IN  /\ UNCHANGED evalVars
        /\ bs.pc = "label"
        /\ IF b.pc = "commit"
           THEN /\ clusters' = b.new
                /\ epoch' = epoch + 1
                /\ lastPass' = b.new
                /\ bs' = [b EXCEPT !.pc = "replaced"]
                /\ UNCHANGED <<summary, two_word_summaries, unassigned_buffer, dirty, apiTask>>
           ELSE CommitOrContinue(b, apiTask)
        /\ UNCHANGED <<messages, classification, participants, history, cache, botVars,
                       analysisPending, last_message_count, bootCount, restarts, question_id,
                       hist, diskOk>>

\* Lines 206-217: the stored messages are relabelled, two_word_summaries is
\* set, the buffer is emptied, the state is saved.
CommitRest ==
    /\ UNCHANGED evalVars
    /\ bs.pc = "replaced"
    /\ summary' = [m \in MsgIds |->
           IF m \in Range(messages) /\ \E i \in 1 .. Len(bs.new) : m \in Range(bs.new[i].message_ids)
           THEN bs.new[CHOOSE i \in 1 .. Len(bs.new) :
                         /\ m \in Range(bs.new[i].message_ids)
                         /\ \A j \in (i + 1) .. Len(bs.new) : m \notin Range(bs.new[j].message_ids)].label
           ELSE summary[m]]
    /\ two_word_summaries' = {bs.new[i].label : i \in 1 .. Len(bs.new)}
    /\ unassigned_buffer' = <<>>
    /\ SaveReturns
    /\ bs' = IdleBs
    /\ apiTask' = IF apiTask = "process_all" THEN "classify_all" ELSE "idle"
    /\ UNCHANGED <<messages, classification, participants, clusters, epoch, lastPass, history, cache,
                   botVars, analysisPending, last_message_count, bootCount, restarts,
                   question_id, hist, diskOk>>

NextThreads ==
    \/ \E m \in MsgIds : Deliver(m)
    \/ \E h \in 1 .. MaxLive, ok \in BOOLEAN, okc \in BOOLEAN : LiveCheck(h, ok, okc)
    \/ \E h \in 1 .. MaxLive : LiveAppend(h)
    \/ \E h \in 1 .. MaxLive, okc \in BOOLEAN : BotAtomic /\ AfterBroadcast(h, okc)
    \/ \E ok \in BOOLEAN : HistRelevant(ok)
    \/ HistCheck
    \/ HistAppend
    \/ \E ok \in BOOLEAN : ProcessAllStart(ok)
    \/ \E ok \in BOOLEAN : ProcessAllClassify(ok)
    \/ \E label \in LoopLabels : LabelGroupReplace(label)
    \/ CommitRest
    \/ LabelFails

SpecThreads == Init /\ [][NextThreads]_vars

\* The periodic_clustering loop and the bot alone, from the state the
\* historical analysis leaves when it stored the relevant history and the
\* pass of process_all ended with the generator's exception: messages 1..4
\* stored and counted, their texts and the question's in the embedding
\* cache, no clusters.  bootCount counts the passes of this specification.
InitLoop ==
    /\ history = [i \in 1 .. NHist |-> i]
    /\ messages = SelectIn(history, {m \in MsgIds : IsRelevantHistorical(m)})
    /\ summary = [m \in MsgIds |-> NoLabel]
    /\ classification = [m \in MsgIds |-> None]
    /\ participants = [a \in Authors |-> Cardinality({m \in Range(messages) : AuthorOf(m) = a})]
    /\ clusters = <<>>
    /\ unassigned_buffer = <<>>
    /\ two_word_summaries = {}
    /\ epoch = 0
    /\ lastPass = <<>>
    /\ cache = TextsOf(history) \cup {QuestionText}
    /\ dirty = FALSE
    /\ hMsg = <<>>
    /\ hPc = <<>>
    /\ hStored = <<>>
    /\ hRef = <<>>
    /\ analysisPending = FALSE
    /\ apiTask = "idle"
    /\ bs = IdleBs
    /\ last_message_count = 0
    /\ bootCount = 0
    /\ restarts = 0
    /\ question_id = 1
    /\ hist = NoHist
    /\ diskOk = TRUE
    /\ EvalIdle

NextLoop ==
    \/ \E m \in MsgIds : Deliver(m)
    \/ \E h \in 1 .. MaxLive, ok \in BOOLEAN, okc \in BOOLEAN : OnMessageStart(h, ok, okc)
    \/ \E h \in 1 .. MaxLive, okc \in BOOLEAN : AfterBroadcast(h, okc)
    \/ \E ok \in BOOLEAN : PeriodicTick(ok)
    \/ \E label \in LoopLabels : LabelGroup(label)
    \/ LabelFails

SpecLoop == InitLoop /\ [][NextLoop]_vars

\* The cache directory becomes unwritable (disk full, permissions) or
\* writable again, at any time.
DiskFlip ==
    /\ diskOk' = ~diskOk
    /\ UNCHANGED <<discussion, history, cache, dirty, botVars, apiVars, restarts,
                   question_id, hist, evalVars>>

\* The bot and the clustering loop on a disk that can fail.
NextSave ==
    \/ NextLoop
    \/ DiskFlip

SpecSave == InitLoop /\ [][NextSave]_vars

\* The same with restarts of the process.
NextRestart ==
    \/ Next
    \/ \E h \in 1 .. MaxLive, ok \in BOOLEAN, okc \in BOOLEAN : AssignRecompute(h, ok, okc)
    \/ Restart

SpecRestart == Init /\ [][NextRestart]_vars

\* --------------------------------------------------- consensus evaluator
MaxEval == 5          \* messages of the Discussion an evaluator call sees
MaxGuild == 4         \* non-bot members of the guild
MetricSpread == 1     \* hundredths around a threshold that a metric is drawn from

\* sentiment_map.get(msg.classification or "neutral", 0.0)
sentiment_map(c) ==
    CASE c = "good" -> 1
      [] c = "bad" -> -1
      [] OTHER -> 0

RECURSIVE SumOf(_)
SumOf(s) == IF s = <<>> THEN 0 ELSE s[1] + SumOf(Tail(s))

Max(a, b) == IF a > b THEN a ELSE b

\* clustering.sentiment_metrics, the statistics a pass stores on a cluster:
\* its own map from class to value, the mean and the population deviation
\* (as the root of the variance); 0.0 and 0.0 for no messages.
sentiment_metrics(ms) ==
    LET n == Len(ms)
        value(c) == CASE c = "positive" -> 1
                      [] c = "negative" -> -1
                      [] OTHER -> 0
        vals == [i \in 1 .. n |-> value(classification[ms[i]])]
        s1 == SumOf(vals)
        s2 == SumOf([i \in 1 .. n |-> vals[i] * vals[i]])
    IN  IF n = 0 THEN [avg |-> Rat(0, 1), std |-> RootOf(Rat(0, 1))]
        ELSE [avg |-> Rat(s1, n), std |-> RootOf(Rat(n * s2 - s1 * s1, n * n))]

\* compute_cluster_metrics that counts the authors who posted whatever the
\* guild answered.
compute_cluster_metrics_posted(cluster_messages, all_question_messages, guild_members) ==
    IF cluster_messages = <<>> \/ all_question_messages = <<>> THEN EmptyMetrics
    ELSE LET n == Len(cluster_messages)
             unique_users_in_cluster ==
                 Cardinality({AuthorOf(cluster_messages[i]) : i \in 1 .. n})
             total_users == Cardinality({a \in Authors : participants[a] > 0})
             sentiments == [i \in 1 .. n |-> sentiment_map(classification[cluster_messages[i]])]
             s1 == SumOf(sentiments)
             s2 == SumOf([i \in 1 .. n |-> sentiments[i] * sentiments[i]])
             embedded == providerUp \/ ~NeedsProvider(TextsOf(cluster_messages))
         IN  [cluster_size_ratio |-> Rat(n, Len(all_question_messages)),
              user_ratio |-> Rat(unique_users_in_cluster, Max(1, total_users)),
              sentiment_std |-> RootOf(Rat(n * s2 - s1 * s1, n * n)),
              intra_similarity |->
                  IF n > 1
                  THEN (IF embedded THEN intra_similarity(EmbsOf(cluster_messages))
                        ELSE Rat(0, 1))
                  ELSE Rat(1, 1)]

\* compute_cluster_metrics; the standard deviation is kept as the root of
\* the population variance.  The embeddings come from the cache or, when
\* the provider answers, from the provider; the exception of a failed call
\* is caught and leaves intra_similarity at 0.0.
compute_cluster_metrics(cluster_messages, all_question_messages, guild_members) ==
    IF cluster_messages = <<>> \/ all_question_messages = <<>> THEN EmptyMetrics
    ELSE LET n == Len(cluster_messages)
             unique_users_in_cluster ==
                 Cardinality({AuthorOf(cluster_messages[i]) : i \in 1 .. n})
             total_users == IF guild_members > 0 THEN guild_members
                            ELSE Cardinality({a \in Authors : participants[a] > 0})
             sentiments == [i \in 1 .. n |-> sentiment_map(classification[cluster_messages[i]])]
             s1 == SumOf(sentiments)
             s2 == SumOf([i \in 1 .. n |-> sentiments[i] * sentiments[i]])
             embedded == providerUp \/ ~NeedsProvider(TextsOf(cluster_messages))
         IN  [cluster_size_ratio |-> Rat(n, Len(all_question_messages)),
              user_ratio |-> Rat(unique_users_in_cluster, Max(1, total_users)),
              sentiment_std |-> RootOf(Rat(n * s2 - s1 * s1, n * n)),
              intra_similarity |->
                  IF n > 1
                  THEN (IF embedded THEN intra_similarity(EmbsOf(cluster_messages))
                        ELSE Rat(0, 1))
                  ELSE Rat(1, 1)]

\* check_consensus_conditions with the first comparison strict.
check_consensus_conditions_strict(m) ==
    /\ ~RatLE(m.cluster_size_ratio, SIZE_RATIO_MIN)
    /\ RatGE(m.user_ratio, USER_RATIO_MIN)
    /\ RootLE(m.sentiment_std, SENTIMENT_STD_MAX)
    /\ RatGE(m.intra_similarity, INTRA_SIMILARITY_MIN)

check_consensus_conditions(m) ==
    /\ RatGE(m.cluster_size_ratio, SIZE_RATIO_MIN)
    /\ RatGE(m.user_ratio, USER_RATIO_MIN)
    /\ RootLE(m.sentiment_std, SENTIMENT_STD_MAX)
    /\ RatGE(m.intra_similarity, INTRA_SIMILARITY_MIN)

\* solution_service.analyze_cluster: the analysis is not implemented; the
\* answer is None for every cluster.
analyze_cluster(cluster_label, cluster_messages, cluster_metrics) == None

\* The keys of the dict built in lines 184-190, in insertion order.
RECURSIVE LabelKeys(_, _)
LabelKeys(msgs, keys) ==
    IF msgs = <<>> THEN keys
    ELSE LET l == summary[msgs[1]]
         IN  LabelKeys(Tail(msgs),
                       IF l = NoLabel \/ l \in Range(keys) THEN keys ELSE Append(keys, l))

\* clusters[cluster_label] of that dict.
LabelMessages(label) == SelectSeq(messages, LAMBDA m : summary[m] = label)

MetricsOf(label) == compute_cluster_metrics(LabelMessages(label), messages, total_guild_members)

\* Line 197 and line 209: the labels whose cluster is handed to
\* analyze_cluster, in loop order.
AnalyzedLabels ==
    SelectSeq(LabelKeys(messages, <<>>),
              LAMBDA l : /\ ~(Len(LabelMessages(l)) < MIN_CLUSTER_MESSAGES)
                         /\ check_consensus_conditions(MetricsOf(l)))

\* An event is appended whatever analyze_cluster answered.
EmitsEventAlways(solution) == TRUE

\* Line 218: if solution
EmitsEvent(solution) == solution # None

\* detect_consensus_for_question: the list it returns.
detect_consensus_for_question ==
    IF messages = <<>> THEN <<>>
    ELSE LET solved == SelectSeq(AnalyzedLabels, LAMBDA l :
                           EmitsEvent(analyze_cluster(l, LabelMessages(l), MetricsOf(l))))
         IN  [i \in 1 .. Len(solved) |->
                [event |-> "consensus_detected", cluster_label |-> solved[i],
                 solution |-> analyze_cluster(solved[i], LabelMessages(solved[i]),
                                              MetricsOf(solved[i])),
                 metrics |-> MetricsOf(solved[i])]]

\* A caller evaluates check_consensus_conditions on the metrics it holds.
CheckConsensus ==
    /\ evalPc = "check"
    /\ verdict' = check_consensus_conditions(metrics)
    /\ evalPc' = "checked"
    /\ UNCHANGED <<engineVars, metrics, perturbed, total_guild_members, providerUp, nearest, call,
                   analyzed, consensus_events>>

\* The threshold of a metric, in hundredths.
ThresholdOf(k) ==
    CASE k = "cluster_size_ratio" -> SIZE_RATIO_MIN
      [] k = "user_ratio" -> USER_RATIO_MIN
      [] k = "sentiment_std" -> SENTIMENT_STD_MAX
      [] k = "intra_similarity" -> INTRA_SIMILARITY_MIN

\* The values a metric is drawn from: the threshold and its neighbours.
Near(k) == (ThresholdOf(k) - MetricSpread) .. (ThresholdOf(k) + MetricSpread)

\* The float h/100 as metric k.
MetricValue(k, h) == IF k = "sentiment_std" THEN RootOf(Rat(h * h, 10000)) ELSE Rat(h, 100)

\* Metrics that passed come back with one of them moved past its
\* threshold, the other three as they were.
Perturb(k, h) ==
    /\ evalPc = "checked"
    /\ verdict
    /\ ~perturbed
    /\ IF k = "sentiment_std" THEN h > ThresholdOf(k) ELSE h < ThresholdOf(k)
    /\ metrics' = [metrics EXCEPT ![k] = MetricValue(k, h)]
    /\ perturbed' = TRUE
    /\ evalPc' = "check"
    /\ UNCHANGED <<engineVars, verdict, total_guild_members, providerUp, nearest, call, analyzed,
                   consensus_events>>

MetricNames == {"cluster_size_ratio", "user_ratio", "sentiment_std", "intra_similarity"}

\* check_consensus_conditions is about to be called on metrics around the
\* thresholds.
InitCheck ==
    /\ EngineInit
    /\ evalPc = "check"
    /\ \E a \in Near("cluster_size_ratio"), b \in Near("user_ratio"),
          c \in Near("sentiment_std"), d \in Near("intra_similarity") :
          metrics = [cluster_size_ratio |-> MetricValue("cluster_size_ratio", a),
                     user_ratio |-> MetricValue("user_ratio", b),
                     sentiment_std |-> MetricValue("sentiment_std", c),
                     intra_similarity |-> MetricValue("intra_similarity", d)]
    /\ verdict = FALSE
    /\ perturbed = FALSE
    /\ total_guild_members = 0
    /\ providerUp = TRUE
    /\ nearest = NoNearest
    /\ call = NoCall
    /\ analyzed = <<>>
    /\ consensus_events = <<>>

NextCheck ==
    \/ CheckConsensus
    \/ \E k \in MetricNames, h \in 0 .. 100 : Perturb(k, h)

SpecCheck == InitCheck /\ [][NextCheck]_vars

\* The on-topic messages of the channel, oldest first.
OnTopic ==
    SelectSeq([i \in 1 .. (NHist + MaxLive) |-> i],
              LAMBDA m : IF m <= NHist THEN IsRelevantHistorical(m) ELSE IsRelevant(m))

\* What a message's label can be: none yet, or one of two.
EvalLabels == {NoLabel, <<"Plan">>, <<"Cost">>}

\* What stands in the messages' classification fields: nothing yet, the
\* classes of the classifier process_one imports (SentimentOf), or those of
\* the classifier of code/backend ("positive", "neutral", "negative").
ClassOf(profile, m) ==
    CASE profile = "none" -> None
      [] profile = "good_bad" -> SentimentOf(ContentOf(m))
      [] OTHER -> CASE SentimentOf(ContentOf(m)) = "good" -> "positive"
                    [] SentimentOf(ContentOf(m)) = "bad" -> "negative"
                    [] OTHER -> "neutral"

\* q.participants after the messages ms were added.
RECURSIVE ParticipantsOf(_)
ParticipantsOf(ms) ==
    IF ms = <<>> THEN [a \in Authors |-> 0]
    ELSE [ParticipantsOf(Tail(ms)) EXCEPT ![AuthorOf(ms[1])] = @ + 1]

\* detect_consensus_for_question is about to be called on a Discussion of
\* up to MaxEval messages, labelled by its clusters, the other messages in
\* the buffer; no task is in flight.
InitDetect ==
    /\ \E n \in 0 .. MaxEval, profile \in {"none", "good_bad", "positive_negative"} :
         /\ n <= Len(OnTopic)
         /\ messages = SubSeq(OnTopic, 1, n)
         /\ \E f \in [1 .. n -> EvalLabels] :
              summary = [m \in MsgIds |->
                           IF \E i \in 1 .. n : OnTopic[i] = m
                           THEN f[CHOOSE i \in 1 .. n : OnTopic[i] = m] ELSE NoLabel]
         /\ classification = [m \in MsgIds |->
                                IF m \in Range(messages) THEN ClassOf(profile, m) ELSE None]
    /\ participants = ParticipantsOf(messages)
    /\ clusters = [i \in 1 .. Len(LabelKeys(messages, <<>>)) |->
                     NewCluster(LabelKeys(messages, <<>>)[i],
                                LabelMessages(LabelKeys(messages, <<>>)[i]))]
    /\ unassigned_buffer = LabelMessages(NoLabel)
    /\ two_word_summaries = Range(LabelKeys(messages, <<>>))
    /\ epoch = IF clusters = <<>> THEN 0 ELSE 1
    /\ lastPass = clusters
    /\ history = [i \in 1 .. NHist |-> i]
    /\ cache \in {{}, TextsOf(messages) \cup {QuestionText}}
    /\ dirty = FALSE
    /\ hMsg = <<>>
    /\ hPc = <<>>
    /\ hStored = <<>>
    /\ hRef = <<>>
    /\ analysisPending = FALSE
    /\ apiTask = "idle"
    /\ bs = IdleBs
    /\ last_message_count = 0
    /\ bootCount = 0
    /\ restarts = 0
    /\ question_id = 1
    /\ hist = NoHist
    /\ diskOk = TRUE
    /\ evalPc = "detect"
    /\ metrics = EmptyMetrics
    /\ verdict = FALSE
    /\ perturbed = FALSE
    /\ total_guild_members \in {0, MaxGuild}
    /\ providerUp \in BOOLEAN
    /\ nearest = NoNearest
    /\ call = NoCall
    /\ analyzed = <<>>
    /\ consensus_events = <<>>

\* A detect_consensus_for_question that takes the messages it looked at out
\* of the buffer.
DetectConsensusConsuming ==
    /\ evalPc \in {"detect", "detected"}
    /\ analyzed' = IF messages = <<>> THEN <<>> ELSE AnalyzedLabels
    /\ consensus_events' = detect_consensus_for_question
    /\ unassigned_buffer' = <<>>
    /\ cache' = cache
    /\ evalPc' = IF evalPc = "detect" THEN "detected" ELSE "redetected"
    /\ UNCHANGED <<messages, summary, classification, participants, clusters,
                   two_word_summaries, epoch, lastPass, history, dirty, botVars, apiVars, restarts, question_id, hist, diskOk,
                   metrics, verdict, perturbed, total_guild_members, providerUp, nearest, call>>

\* One call of detect_consensus_for_question, the first or a second one on
\* the same Discussion.  The embeddings fetched for the clusters of two or
\* more messages enter the cache.
DetectConsensus ==
    /\ evalPc \in {"detect", "detected"}
    /\ analyzed' = IF messages = <<>> THEN <<>> ELSE AnalyzedLabels
    /\ consensus_events' = detect_consensus_for_question
    /\ cache' = IF providerUp
                THEN cache \cup UNION {TextsOf(LabelMessages(l)) :
                         l \in {k \in Range(LabelKeys(messages, <<>>)) :
                                  Len(LabelMessages(k)) > 1}}
                ELSE cache
    /\ evalPc' = IF evalPc = "detect" THEN "detected" ELSE "redetected"
    /\ UNCHANGED <<discussion, history, dirty, botVars, apiVars, restarts, question_id, hist, diskOk, metrics, verdict,
                   perturbed, total_guild_members, providerUp, nearest, call>>

NextDetect == DetectConsensus

SpecDetect == InitDetect /\ [][NextDetect]_vars

\* -------------------------------------------------- assign_nearest alone
\* Message embeddings, centroids and thresholds (hundredths) around the
\* cosines 0.6, 0.8, 0.96 and 1 that these vectors have with each other.
MaxClusters == 3
NearestEmbeddings == {<<5, 0>>, <<3, 4>>, <<4, 3>>}
NearestCentroids == {<<5, 0>>, <<3, 4>>, <<4, 3>>, <<0, 5>>, <<-3, 4>>, <<0, 0>>}
NearestThresholds == {0, 59, 60, 61, 73, 79, 80, 81, 95, 96, 97, 100}

InitNearest ==
    /\ EngineInit
    /\ evalPc = "idle"
    /\ metrics = EmptyMetrics
    /\ verdict = FALSE
    /\ perturbed = FALSE
    /\ total_guild_members = 0
    /\ providerUp = TRUE
    /\ analyzed = <<>>
    /\ consensus_events = <<>>
    /\ call = NoCall
    /\ \E n \in 0 .. MaxClusters, e \in NearestEmbeddings, t \in NearestThresholds :
          \E cs \in [1 .. n -> NearestCentroids] :
             nearest = [pc |-> "call", msg_emb |-> e,
                        clusters |-> [i \in 1 .. n |-> [centroid |-> [num |-> cs[i], den |-> 1]]],
                        threshold |-> t, result |-> 0]

\* The call returns.
AssignNearest ==
    /\ nearest.pc = "call"
    /\ nearest' = [nearest EXCEPT
                      !.pc = "returned",
                      !.result = assign_nearest(nearest.msg_emb, nearest.clusters,
                                                nearest.threshold)]
    /\ UNCHANGED <<engineVars, evalPc, metrics, verdict, perturbed, total_guild_members,
                   providerUp, analyzed, consensus_events, call>>

NextNearest == AssignNearest

SpecNearest == InitNearest /\ [][NextNearest]_vars

\* ------------------------------------------ functions studied on their own
\* Everything but `call` at rest.
EvalQuiet ==
    /\ evalPc = "idle"
    /\ metrics = EmptyMetrics
    /\ verdict = FALSE
    /\ perturbed = FALSE
    /\ total_guild_members = 0
    /\ providerUp = TRUE
    /\ analyzed = <<>>
    /\ consensus_events = <<>>
    /\ nearest = NoNearest

allButCall == <<engineVars, evalPc, metrics, verdict, perturbed, total_guild_members,
                providerUp, nearest, analyzed, consensus_events>>

\* ------------------------------------------------------ noble messages
\* A text is a sequence of characters.
MaxText == 2
MaxMembers == 3
Chars == {"a", "b", " "}
Strings == UNION {[1 .. n -> Chars] : n \in 0 .. MaxText}
\* Message contents: empty, plain, one containing another, with a blank.
MemberTexts == {<<>>, <<"a">>, <<"b">>, <<"a", "b">>, <<" ", "a">>}

\* str.strip()
RECURSIVE Strip(_)
Strip(s) ==
    IF s = <<>> THEN s
    ELSE IF Head(s) = " " THEN Strip(Tail(s))
    ELSE IF s[Len(s)] = " " THEN Strip(SubSeq(s, 1, Len(s) - 1))
    ELSE s

\* a in b, for strings
IsSub(a, b) ==
    \E i \in 0 .. (Len(b) - Len(a)) : SubSeq(b, i + 1, i + Len(a)) = a

\* The first index of s with property P, 0 when there is none.
FirstIndex(s, P(_)) ==
    IF \E i \in 1 .. Len(s) : P(s[i])
    THEN CHOOSE i \in 1 .. Len(s) : P(s[i]) /\ \A j \in 1 .. (i - 1) : ~P(s[j])
    ELSE 0

\* A selection that hands back the generator's answer when no member
\* equals it.
noble_message_per_cluster_verbatim(cluster_messages, answer) ==
    LET selected == Strip(answer)
        exact == FirstIndex(cluster_messages, LAMBDA msg : Strip(msg) = Strip(selected))
    IN  IF cluster_messages = <<>> THEN [none |-> TRUE, text |-> <<>>, asked |-> FALSE]
        ELSE IF Len(cluster_messages) = 1
        THEN [none |-> FALSE, text |-> cluster_messages[1], asked |-> FALSE]
        ELSE IF exact # 0
        THEN [none |-> FALSE, text |-> cluster_messages[exact], asked |-> TRUE]
        ELSE [none |-> FALSE, text |-> selected, asked |-> TRUE]

\* llm_service.noble_message_per_cluster, with `answer` what the generator
\* returns when it is asked: the text returned (none: None) and whether
\* the generator was asked.
noble_message_per_cluster(cluster_messages, answer) ==
    LET selected == Strip(answer)
        exact == FirstIndex(cluster_messages, LAMBDA msg : Strip(msg) = Strip(selected))
        partial == FirstIndex(cluster_messages,
                              LAMBDA msg : IsSub(msg, selected) \/ IsSub(selected, msg))
    IN  IF cluster_messages = <<>> THEN [none |-> TRUE, text |-> <<>>, asked |-> FALSE]
        ELSE IF Len(cluster_messages) = 1
        THEN [none |-> FALSE, text |-> cluster_messages[1], asked |-> FALSE]
        ELSE IF exact # 0
        THEN [none |-> FALSE, text |-> cluster_messages[exact], asked |-> TRUE]
        ELSE IF partial # 0
        THEN [none |-> FALSE, text |-> cluster_messages[partial], asked |-> TRUE]
        ELSE [none |-> FALSE, text |-> cluster_messages[1], asked |-> TRUE]

\* [message_map[id].content for id in cluster.message_ids if id in message_map]
ClusterContents(c) ==
    LET ids == SelectSeq(c.message_ids, LAMBDA id : id \in c.present)
    IN  [i \in 1 .. Len(ids) |-> c.content[ids[i]]]

\* A cluster with ids 1..n, the contents of its messages, which of them
\* are in the Discussion's message list, and the generator's answer.
InitNoble ==
    /\ EngineInit
    /\ EvalQuiet
    /\ \E n \in 0 .. MaxMembers, answer \in Strings :
          \E content \in [1 .. n -> MemberTexts], present \in SUBSET (1 .. n) :
             call = [fn |-> "noble", pc |-> "call", message_ids |-> [i \in 1 .. n |-> i],
                     content |-> content, present |-> present, answer |-> answer,
                     none |-> TRUE, text |-> <<>>, asked |-> FALSE, noble_message_id |-> 0]

\* compute_noble_messages_for_clusters for one cluster without a noble
\* message: lines 40-57 skip a cluster without resolvable members; else
\* the selection, and lines 63-71 store the id of the first member with
\* the selected content (0: noble_message_id stays None).
ComputeNoble ==
    LET msgs == ClusterContents(call)
        r == noble_message_per_cluster(msgs, call.answer)
        found == FirstIndex(call.message_ids,
                            LAMBDA id : id \in call.present /\ call.content[id] = r.text)
    IN  /\ call.fn = "noble"
        /\ call.pc = "call"
        /\ call' = IF msgs = <<>>
                   THEN [call EXCEPT !.pc = "skipped"]
                   ELSE [call EXCEPT !.pc = "stored", !.none = r.none, !.text = r.text,
                                     !.asked = r.asked,
                                     !.noble_message_id =
                                         IF ~r.none /\ r.text # <<>> /\ found # 0
                                         THEN call.message_ids[found] ELSE 0]
        /\ UNCHANGED allButCall

NextNoble == ComputeNoble

SpecNoble == InitNoble /\ [][NextNoble]_vars

\* ------------------------------------------------------ cluster experts
MaxExpertMembers == 4
ExpertUsers == 1 .. 3

\* The members of the cluster that message_map resolves, in membership order.
Resolved(c) == SelectSeq(c.message_ids, LAMBDA id : id \in c.present)

\* user_counts[u]
UserCount(c, u) == Cardinality({i \in 1 .. Len(Resolved(c)) : c.user_id[Resolved(c)[i]] = u})

\* Where u is first seen among the resolved members (the Counter keeps
\* its keys in insertion order).
FirstSeen(c, u) ==
    CHOOSE i \in 1 .. Len(Resolved(c)) :
        /\ c.user_id[Resolved(c)[i]] = u
        /\ \A j \in 1 .. (i - 1) : c.user_id[Resolved(c)[j]] # u

\* The author with the most messages, whoever wrote the noble message.
find_cluster_expert_most_active(c) ==
    LET users == {c.user_id[Resolved(c)[i]] : i \in 1 .. Len(Resolved(c))}
    IN  IF c.message_ids = <<>> \/ users = {} THEN 0
        ELSE CHOOSE u \in users :
               \A v \in users \ {u} :
                  \/ UserCount(c, u) > UserCount(c, v)
                  \/ UserCount(c, u) = UserCount(c, v) /\ FirstSeen(c, u) < FirstSeen(c, v)

\* noble_message_service.find_cluster_expert: the user_id of the expert,
\* 0 for None.  most_common(1) is the first key of the greatest count.
find_cluster_expert(c) ==
    LET users == {c.user_id[Resolved(c)[i]] : i \in 1 .. Len(Resolved(c))}
    IN  IF c.message_ids = <<>> \/ users = {} THEN 0
        ELSE IF c.noble_message_id # 0 /\ c.noble_message_id \in c.present
        THEN c.user_id[c.noble_message_id]
        ELSE CHOOSE u \in users :
               \A v \in users \ {u} :
                  \/ UserCount(c, u) > UserCount(c, v)
                  \/ UserCount(c, u) = UserCount(c, v) /\ FirstSeen(c, u) < FirstSeen(c, v)

\* A cluster with ids 1..n, their authors, which of them are in the
\* message list, and its noble message: none, or a member in the list
\* (compute_noble_messages_for_clusters stores no other id).
InitExpert ==
    /\ EngineInit
    /\ EvalQuiet
    /\ \E n \in 0 .. MaxExpertMembers :
          \E user_id \in [1 .. n -> ExpertUsers], present \in SUBSET (1 .. n) :
             \E noble \in {0} \cup present :
                call = [fn |-> "expert", pc |-> "call", message_ids |-> [i \in 1 .. n |-> i],
                        user_id |-> user_id, present |-> present,
                        noble_message_id |-> noble, result |-> 0]

FindExpert ==
    /\ call.fn = "expert"
    /\ call.pc = "call"
    /\ call' = [call EXCEPT !.pc = "returned", !.result = find_cluster_expert(call)]
    /\ UNCHANGED allButCall

NextExpert == FindExpert

SpecExpert == InitExpert /\ [][NextExpert]_vars

\* ------------------------------------------------------- the kernel alone
MaxVectors == 3
KernelVectors == {<<5, 0>>, <<3, 4>>, <<4, 3>>, <<-3, 4>>, <<0, -5>>}

\* What one call of centroid and one of intra_similarity give: whether
\* centroid raised (line 7-8), its value otherwise, and the similarity.
KernelResults(embs) ==
    [raised |-> Len(embs) = 0,
     centroid |-> IF Len(embs) = 0 THEN [num |-> <<0, 0>>, den |-> 0] ELSE centroid(embs),
     intra_sim |-> intra_similarity(embs)]

InitKernel ==
    /\ EngineInit
    /\ EvalQuiet
    /\ \E n \in 0 .. MaxVectors :
          \E embs \in [1 .. n -> KernelVectors] :
             call = [fn |-> "kernel", pc |-> "call", embeddings |-> embs, given |-> embs,
                     first |-> KernelResults(<<>>), second |-> KernelResults(<<>>)]

\* centroid and intra_similarity are called on the array, and then again.
KernelCall ==
    /\ call.fn = "kernel"
    /\ call.pc \in {"call", "once"}
    /\ call' = IF call.pc = "call"
               THEN [call EXCEPT !.pc = "once", !.first = KernelResults(call.embeddings)]
               ELSE [call EXCEPT !.pc = "twice", !.second = KernelResults(call.embeddings)]
    /\ UNCHANGED allButCall

NextKernel == KernelCall

SpecKernel == InitKernel /\ [][NextKernel]_vars

\* ------------------------------------------------- label carry-over alone
MaxIds == 4
MaxPrior == 2
OverlapIds == 1 .. MaxIds
PriorLabels == <<<<"Plan">>, <<"Cost">>, <<"Plan", "Budget">>>>

RECURSIVE SortedSeq(_)
SortedSeq(S) ==
    IF S = {} THEN <<>>
    ELSE LET x == CHOOSE y \in S : \A z \in S : y <= z
         IN  <<x>> \o SortedSeq(S \ {x})

\* Lines 80-100 for one group: the existing cluster found, the label taken
\* from it, and whether the label generator is to be called.
carry_over(cluster_msg_ids, existing) ==
    LET m == matching_existing(cluster_msg_ids, existing)
    IN  [matching |-> m,
         label |-> IF m # 0 THEN existing[m].label ELSE NoLabel,
         generate |-> m = 0]

InitOverlap ==
    /\ EngineInit
    /\ EvalQuiet
    /\ \E ids \in SUBSET OverlapIds \ {{}}, n \in 0 .. MaxPrior :
          \E f \in [1 .. n -> SUBSET OverlapIds] :
             call = [fn |-> "carry_over", pc |-> "call", cluster_msg_ids |-> ids,
                     clusters |-> [i \in 1 .. n |->
                                     [label |-> PriorLabels[i], message_ids |-> SortedSeq(f[i])]],
                     result |-> [matching |-> 0, label |-> NoLabel, generate |-> FALSE]]

CarryOver ==
    /\ call.fn = "carry_over"
    /\ call.pc = "call"
    /\ call' = [call EXCEPT !.pc = "done",
                            !.result = carry_over(call.cluster_msg_ids, call.clusters)]
    /\ UNCHANGED allButCall

NextOverlap == CarryOver

SpecOverlap == InitOverlap /\ [][NextOverlap]_vars

\* ------------------------------------------------- the retry loop alone
MaxGenerated == 2
LoopGroups == {<<1, 2>>, <<3, 4>>, <<6>>}
LoopGenerated == GenOut \cup {<<"Plan", "Budget">>}

\* A retry loop that takes the last attempt's answer as it is.
RECURSIVE RetryLoopPlain(_, _, _, _, _)
RetryLoopPlain(outs, attempt, generated_labels, ids, levels) ==
    LET candidate_label == outs[attempt + 1]
        called == Append(levels, [is_retry |-> attempt > 0, is_hard_retry |-> attempt >= 2])
        dup == Lower(candidate_label) \in
                 {Lower(generated_labels[i]) : i \in 1 .. Len(generated_labels)}
        similar == ~dup /\ generated_labels # <<>>
                        /\ TooSimilar(candidate_label, generated_labels)
    IN  IF (~dup /\ ~similar) \/ attempt = MAX_ATTEMPTS - 1
        THEN [label |-> candidate_label, levels |-> called, raised |-> FALSE]
        ELSE RetryLoopPlain(outs, attempt + 1, generated_labels, ids, called)

\* Lines 112-182 with what the loop did: the label it ends with, the
\* (is_retry, is_hard_retry) of each call of two_word_label it made, and
\* whether it raised.
RECURSIVE RetryLoop(_, _, _, _, _)
RetryLoop(outs, attempt, generated_labels, ids, levels) ==
    LET candidate_label == outs[attempt + 1]
        called == Append(levels, [is_retry |-> attempt > 0, is_hard_retry |-> attempt >= 2])
        dup == Lower(candidate_label) \in
                 {Lower(generated_labels[i]) : i \in 1 .. Len(generated_labels)}
        similar == ~dup /\ generated_labels # <<>>
                        /\ TooSimilar(candidate_label, generated_labels)
    IN  IF ~dup /\ ~similar
        THEN [label |-> candidate_label, levels |-> called, raised |-> FALSE]
        ELSE IF attempt = MAX_ATTEMPTS - 1
        THEN [label |-> Append(candidate_label, Distinguisher(ids)), levels |-> called,
              raised |-> FALSE]
        ELSE RetryLoop(outs, attempt + 1, generated_labels, ids, called)

InitRetry ==
    /\ EngineInit
    /\ EvalQuiet
    /\ \E outs \in [1 .. MAX_ATTEMPTS -> GenOut], ids \in LoopGroups, n \in 0 .. MaxGenerated :
          \E gen \in [1 .. n -> LoopGenerated] :
             call = [fn |-> "retry", pc |-> "call", outs |-> outs, cluster_messages |-> ids,
                     generated_labels |-> gen,
                     result |-> [label |-> NoLabel, levels |-> <<>>, raised |-> FALSE]]

LabelWithRetry ==
    /\ call.fn = "retry"
    /\ call.pc = "call"
    /\ call' = [call EXCEPT !.pc = "done",
                            !.result = RetryLoop(call.outs, 0, call.generated_labels,
                                                 call.cluster_messages, <<>>)]
    /\ UNCHANGED allButCall

NextRetry == LabelWithRetry

SpecRetry == InitRetry /\ [][NextRetry]_vars

\* -------------------------------------------------- cluster_embeddings alone
MaxPoints == 4
MinSims == {55, 90}
MaxClusterCounts == {1, 2, 4}

\* Sum of the dot products of the pairs of points in Pairs.
RECURSIVE DotSum(_, _)
DotSum(embs, Pairs) ==
    IF Pairs = {} THEN 0
    ELSE LET p == CHOOSE q \in Pairs : TRUE
         IN  Dot(embs[p[1]], embs[p[2]]) + DotSum(embs, Pairs \ {p})

\* Average linkage on dist = 1 - sim: the two groups merged next are a pair
\* with the greatest mean similarity between their members (any such pair
\* when several are equal).
MergeBest(embs, P) ==
    LET Pairs == {pr \in P \X P : pr[1] # pr[2]}
        link(pr) == DotSum(embs, pr[1] \X pr[2])
        size(pr) == Cardinality(pr[1]) * Cardinality(pr[2])
    IN  {(P \ {pr[1], pr[2]}) \cup {pr[1] \cup pr[2]} :
           pr \in {x \in Pairs : \A y \in Pairs : link(y) * size(x) <= link(x) * size(y)}}

RECURSIVE Agglomerative(_, _, _)
Agglomerative(embs, P, k) ==
    IF Cardinality(P) <= k THEN {P}
    ELSE UNION {Agglomerative(embs, Q, k) : Q \in MergeBest(embs, P)}

\* AgglomerativeClustering(n_clusters = k, metric = "precomputed",
\* linkage = "average").fit_predict(dist): the groupings it can return.
fit_predict(embs, k) == Agglomerative(embs, {{i} : i \in 1 .. Len(embs)}, k)

\* Lines 48-57: every group of more than one point has a mean pairwise
\* similarity of at least min_sim (in hundredths).
GroupingValid(embs, P, min_sim) ==
    \A G \in P :
        LET Pairs == {pr \in G \X G : pr[1] < pr[2]}
        IN  Cardinality(G) <= 1
              \/ DotSum(embs, Pairs) * 100 >= min_sim * 25 * Cardinality(Pairs)

InitClusterEmbeddings ==
    /\ EngineInit
    /\ EvalQuiet
    /\ \E n \in 1 .. MaxPoints, min_sim \in MinSims, max_clusters \in MaxClusterCounts :
          \E embs \in [1 .. n -> KernelVectors] :
             call = [fn |-> "cluster_embeddings", pc |-> "search", embs |-> embs,
                     min_sim |-> min_sim, max_clusters |-> max_clusters,
                     lo |-> 1, hi |-> n, found |-> FALSE, best_labels |-> {},
                     iterations |-> 0, fallback |-> FALSE]

\* One iteration of the while loop, lines 43-59.
SearchStep ==
    /\ call.fn = "cluster_embeddings"
    /\ call.pc = "search"
    /\ call.lo < call.hi
    /\ LET k == (call.lo + call.hi) \div 2
       IN  \E labels \in fit_predict(call.embs, k) :
             call' = IF GroupingValid(call.embs, labels, call.min_sim)
                     THEN [call EXCEPT !.found = TRUE, !.best_labels = labels, !.hi = k,
                                       !.iterations = @ + 1]
                     ELSE [call EXCEPT !.lo = k + 1, !.iterations = @ + 1]
    /\ UNCHANGED allButCall

\* Lines 60-64: the loop is over; without a valid grouping the fixed count
\* min(max_clusters, n) is used.
SearchEnd ==
    /\ call.fn = "cluster_embeddings"
    /\ call.pc = "search"
    /\ call.lo >= call.hi
    /\ IF call.found
       THEN call' = [call EXCEPT !.pc = "done"]
       ELSE \E labels \in fit_predict(call.embs, Min(call.max_clusters, Len(call.embs))) :
              call' = [call EXCEPT !.pc = "done", !.best_labels = labels, !.fallback = TRUE]
    /\ UNCHANGED allButCall

NextClusterEmbeddings ==
    \/ SearchStep
    \/ SearchEnd

SpecClusterEmbeddings == InitClusterEmbeddings /\ [][NextClusterEmbeddings]_vars

\* ------------------------------------------------ get_embeddings_batch alone
MaxBatch == 3         \* texts in one call
BatchTexts == {1, 2, 3}

\* embeddings.sort(key=lambda x: x[0]) on (index, vector) pairs.
RECURSIVE SortByIndex(_)
SortByIndex(pairs) ==
    IF pairs = <<>> THEN <<>>
    ELSE LET k == CHOOSE i \in 1 .. Len(pairs) :
                     \A j \in 1 .. Len(pairs) : pairs[i][1] <= pairs[j][1]
         IN  <<pairs[k]>> \o
             SortByIndex(SubSeq(pairs, 1, k - 1) \o SubSeq(pairs, k + 1, Len(pairs)))

\* get_embeddings_batch that returns the vectors as it collected them: the
\* cached ones first, then the fetched ones.
get_embeddings_batch_unsorted(msgs, cached, up, use_cache) ==
    LET n == Len(msgs)
        hit(i) == use_cache /\ msgs[i] \in cached
        found == SelectSeq([i \in 1 .. n |-> <<i, EmbeddingOf(msgs[i])>>],
                           LAMBDA p : hit(p[1]))
        indices_to_fetch == SelectSeq([i \in 1 .. n |-> i], LAMBDA i : ~hit(i))
        messages_to_fetch == [j \in 1 .. Len(indices_to_fetch) |-> msgs[indices_to_fetch[j]]]
        fetched == [j \in 1 .. Len(indices_to_fetch) |->
                      <<indices_to_fetch[j], EmbeddingOf(messages_to_fetch[j])>>]
        embeddings == IF messages_to_fetch = <<>> THEN found ELSE found \o fetched
    IN  IF messages_to_fetch # <<>> /\ ~up
        THEN [raised |-> TRUE, result |-> <<>>, sent |-> <<>>, cache |-> cached]
        ELSE [raised |-> FALSE,
              result |-> [i \in 1 .. Len(embeddings) |-> embeddings[i][2]],
              sent |-> messages_to_fetch,
              cache |-> IF use_cache THEN cached \cup Range(messages_to_fetch) ELSE cached]

\* get_embeddings_batch(messages, use_cache) with `cached` the texts that
\* have a cache entry and `up` whether the provider can be reached: with
\* use_cache the cache is asked for each text in turn; the misses (without
\* use_cache: all texts) go to the provider in one request, each answer is
\* cached if use_cache, and the (index, vector) pairs are sorted by index.
\* What it returns or that it raised, the texts it sent and the cache
\* afterwards.
get_embeddings_batch(msgs, cached, up, use_cache) ==
    LET n == Len(msgs)
        hit(i) == use_cache /\ msgs[i] \in cached
        found == SelectSeq([i \in 1 .. n |-> <<i, EmbeddingOf(msgs[i])>>],
                           LAMBDA p : hit(p[1]))
        indices_to_fetch == SelectSeq([i \in 1 .. n |-> i], LAMBDA i : ~hit(i))
        messages_to_fetch == [j \in 1 .. Len(indices_to_fetch) |-> msgs[indices_to_fetch[j]]]
        fetched == [j \in 1 .. Len(indices_to_fetch) |->
                      <<indices_to_fetch[j], EmbeddingOf(messages_to_fetch[j])>>]
        embeddings == SortByIndex(IF messages_to_fetch = <<>> THEN found ELSE found \o fetched)
    IN  IF messages_to_fetch # <<>> /\ ~up
        THEN [raised |-> TRUE, result |-> <<>>, sent |-> <<>>, cache |-> cached]
        ELSE [raised |-> FALSE,
              result |-> [i \in 1 .. Len(embeddings) |-> embeddings[i][2]],
              sent |-> messages_to_fetch,
              cache |-> IF use_cache THEN cached \cup Range(messages_to_fetch) ELSE cached]

\* A call on up to MaxBatch texts, any of them cached, the provider
\* reachable or not, with the cache or past it.
InitBatch ==
    /\ EngineInit
    /\ EvalQuiet
    /\ \E n \in 0 .. MaxBatch, cached \in SUBSET BatchTexts, up \in BOOLEAN,
          use_cache \in BOOLEAN :
          \E msgs \in [1 .. n -> BatchTexts] :
             call = [fn |-> "get_embeddings_batch", pc |-> "call", messages |-> msgs,
                     cached |-> cached, up |-> up, use_cache |-> use_cache,
                     out |-> [raised |-> FALSE, result |-> <<>>, sent |-> <<>>,
                              cache |-> cached]]

GetEmbeddingsBatch ==
    /\ call.fn = "get_embeddings_batch"
    /\ call.pc = "call"
    /\ call' = [call EXCEPT !.pc = "done",
                            !.out = get_embeddings_batch(call.messages, call.cached, call.up,
                                                         call.use_cache)]
    /\ UNCHANGED allButCall

NextBatch == GetEmbeddingsBatch

SpecBatch == InitBatch /\ [][NextBatch]_vars

\* ------------------------------------------------------------ properties
\* The clusters whose message_ids hold m.
ClustersOf(m) == {i \in 1 .. Len(clusters) : m \in Range(clusters[i].message_ids)}

\* C1: in every reachable state each message id is in the message_ids of
\* at most one cluster, at most once in unassigned_buffer, and never in
\* both a cluster and the buffer.
C1_MembershipInvariant ==
    \A m \in MsgIds :
        /\ Cardinality(ClustersOf(m)) <= 1
        /\ Count(unassigned_buffer, m) <= 1
        /\ ~(ClustersOf(m) # {} /\ m \in Range(unassigned_buffer))

\* A step of an on_message task in which assign_message reads the cluster
\* list and changes it or the buffer.
AssignStep ==
    /\ Len(hPc') = Len(hPc)
    /\ \E h \in 1 .. Len(hPc) : hPc[h] \in {"queued", "broadcast"} /\ hPc'[h] # hPc[h]
    /\ clusters' # clusters \/ unassigned_buffer' # unassigned_buffer

\* A step of a bootstrap_fixed_kmeans pass.
BootstrapStep == bs' # bs \/ bootCount' # bootCount

\* C2: while a bootstrap pass is between its start and its replacement of
\* the cluster list, no assign_message step reads or changes the clusters or
\* the buffer; and while an assign_message is in flight, no bootstrap step
\* is taken.
C2_MutualExclusion ==
    [][restarts' = restarts =>
          /\ bs.pc # "idle" => ~AssignStep
          /\ BotBusy => ~BootstrapStep]_vars

\* The on_message task h has not yet run, or not yet finished, its
\* assign_message.
AssignPending(h) == hPc[h] \in {"queued", "broadcast", "recompute"}

\* C3: messages are assigned one at a time in arrival order: a task runs
\* assign_message only when the assign_message of every other message that
\* arrived earlier is over.
C3_ArrivalOrder ==
    [][\A h \in 1 .. Len(hPc) :
         (Len(hPc') = Len(hPc) /\ hPc[h] \in {"queued", "broadcast"}
            /\ hPc'[h] \in {"recompute", "done"}
            /\ (clusters' # clusters \/ unassigned_buffer' # unassigned_buffer))
         => \A g \in 1 .. (h - 1) : hMsg[g] # hMsg[h] => ~AssignPending(g)]_vars

\* C4: the labels of the live clusters are pairwise distinct under
\* case-insensitive comparison, whatever the label generator answers and
\* whether a label was carried over or generated.
C4_LabelsDistinct ==
    \A i, j \in 1 .. Len(clusters) :
        i # j => Lower(clusters[i].label) # Lower(clusters[j].label)

\* C5: a failing embedding call of assign_message leaves the Discussion as
\* it was before assign_message touched it: when the batch call raises for
\* a message stored by its own task, and the cluster list was not replaced
\* meanwhile, the cluster's message_ids and the message's label are what
\* assign_message found.
C5_FailedCallLeavesState ==
    [][\A h \in 1 .. Len(hPc) :
         (/\ Len(hPc') = Len(hPc)
          /\ hStored[h]
          /\ hPc[h] = "recompute" /\ hPc'[h] = "done"
          /\ cache' = cache /\ NeedsProvider(TextsOf(hRef[h].texts))
          /\ hRef[h].epoch = epoch')
         => /\ clusters'[hRef[h].idx].message_ids = hRef[h].ids0
            /\ summary'[hMsg[h]] = hRef[h].label0]_vars

\* C6: a bootstrap pass builds its partition in memory: none of its steps
\* but the final replacement changes the clusters, a message's label,
\* two_word_summaries or the buffer, so a pass that aborts on a provider or
\* generator failure has changed none of them.
C6_BootstrapFrame ==
    [][(BootstrapStep /\ restarts' = restarts /\ epoch' = epoch)
         => UNCHANGED <<clusters, summary, two_word_summaries, unassigned_buffer>>]_vars

\* C6 witness: a pass has aborted after an earlier pass had completed, and
\* the clusters of the earlier pass are in place.
C6_Witness ==
    /\ bootCount > epoch
    /\ epoch > 0
    /\ bs.pc = "idle"
    /\ clusters # <<>>
    /\ two_word_summaries = {clusters[i].label : i \in 1 .. Len(clusters)}

\* C7: when a bootstrap pass completes, every message of the Discussion is
\* in exactly one of the new clusters, once, and the buffer is empty.
C7_PartitionCoverage ==
    [][epoch' # epoch =>
         /\ \A m \in Range(messages') :
              /\ Cardinality({i \in 1 .. Len(clusters') :
                                 m \in Range(clusters'[i].message_ids)}) = 1
              /\ \A i \in 1 .. Len(clusters') : Count(clusters'[i].message_ids, m) <= 1
         /\ unassigned_buffer' = <<>>]_vars

\* C8: after a message id has been ingested a second time, it occurs at
\* most once in any cluster's message_ids and at most once in the buffer.
C8_NoDoubleCount ==
    \A g, h \in 1 .. Len(hMsg) :
        (g < h /\ hMsg[g] = hMsg[h] /\ hPc[g] = "done" /\ hPc[h] = "done")
        => /\ \A i \in 1 .. Len(clusters) : Count(clusters[i].message_ids, hMsg[h]) <= 1
           /\ Count(unassigned_buffer, hMsg[h]) <= 1

\* C9: check_consensus_conditions answers true exactly when the size ratio
\* is at least 0.45, the user ratio at least 0.50, the sentiment deviation
\* at most 0.25 and the intra-similarity at least 0.55; and metrics that
\* passed, with one of them moved past its threshold, fail.
C9_ThresholdVerdict ==
    evalPc = "checked" =>
        /\ verdict <=>
              /\ metrics.cluster_size_ratio.num * 100 >= 45 * metrics.cluster_size_ratio.den
              /\ metrics.user_ratio.num * 100 >= 50 * metrics.user_ratio.den
              /\ metrics.sentiment_std.sq.num * 10000 <= 625 * metrics.sentiment_std.sq.den
              /\ metrics.intra_similarity.num * 100 >= 55 * metrics.intra_similarity.den
        /\ perturbed => ~verdict

\* C9 witness: metrics with every value on its threshold passed; the size
\* ratio was then moved below 0.45, and the verdict is false.
C9_Witness ==
    /\ evalPc = "checked"
    /\ perturbed
    /\ ~verdict
    /\ metrics.cluster_size_ratio = Rat(44, 100)
    /\ metrics.user_ratio = Rat(50, 100)
    /\ metrics.sentiment_std = RootOf(Rat(625, 10000))
    /\ metrics.intra_similarity = Rat(55, 100)

C12_NoOverlap ==
    [][bootCount' # bootCount => bs.pc = "idle"]_vars

\* The loop has started a pass, still in flight, after an earlier pass
\* replaced the cluster list.
C12_Witness ==
    bootCount = 2 /\ apiTask = "periodic" /\ bs.pc = "label" /\ epoch >= 1

\* A pass started by the periodic_clustering loop ends with the exception
\* of a collaborator (lines 66-67 log it).
PeriodicFailure ==
    /\ restarts' = restarts
    /\ \/ apiTask = "periodic" /\ bs.pc = "label" /\ bs'.pc = "idle" /\ epoch' = epoch
       \/ /\ apiTask = "idle" /\ last_message_count' # last_message_count
          /\ bootCount' # bootCount /\ bs'.pc = "idle" /\ epoch' = epoch

\* C13: after a bootstrap attempt of the periodic_clustering loop failed
\* with a collaborator's error, the loop attempts the bootstrap again on a
\* later iteration even if no further message arrives.  The count the loop
\* compares with changes only in an iteration that does not skip, and the
\* message count only when a message arrives, so the loop attempts again
\* without a new message exactly when its skip test (lines 52-54) is false
\* in the state the failure leaves.
C13_RetryAfterFailure ==
    [][PeriodicFailure => Len(messages') # last_message_count']_vars

\* The periodic_clustering loop calls bootstrap_fixed_kmeans (line 61).
PeriodicInvoke == apiTask = "idle" /\ bootCount' # bootCount

\* C14: the periodic_clustering loop skips its run when the message count
\* equals the count seen at its last run.  The count it keeps never goes
\* down, and a call of bootstrap_fixed_kmeans by the loop happens at a
\* message count above it and records that count: between two calls made
\* by the loop the message count has changed.
C14_SkipsUnchangedCount ==
    [][/\ last_message_count' >= last_message_count
       /\ PeriodicInvoke =>
             (Len(messages) > last_message_count /\ last_message_count' = Len(messages))]_vars

\* The loop's second call, at five messages, after its call at four.
C14_Witness ==
    bootCount = 2 /\ apiTask = "periodic" /\ last_message_count = Len(messages)
       /\ Len(messages) > PERIODIC_MIN_MESSAGES

\* C15: in every reachable state every id in a live cluster's message_ids
\* and every id in unassigned_buffer is the id of a message in the message
\* list of the same (the active) Discussion, also when a new Discussion is
\* created while the ingestion of a message is in progress.
C15_IdsAreStored ==
    /\ \A i \in 1 .. Len(clusters) : Range(clusters[i].message_ids) \subseteq Range(messages)
    /\ Range(unassigned_buffer) \subseteq Range(messages)

\* C16: whenever no assign_message and no bootstrap pass is in progress,
\* the centroid and intra_sim of each live cluster are the values computed
\* from the stored messages whose ids are its message_ids.
C16_CentroidsCurrent ==
    (bs.pc = "idle" /\ \A h \in 1 .. Len(hPc) : hPc[h] # "recompute") =>
        \A i \in 1 .. Len(clusters) :
            LET embs == EmbsOf(MemberIds(clusters[i].message_ids))
            IN  /\ clusters[i].centroid = centroid(embs)
                /\ clusters[i].intra_sim = intra_similarity(embs)

\* C17: create_question_state replaces the active Discussion with a new one
\* whose message list, cluster list and unassigned_buffer are empty; from
\* then on get_question_state answers None for the previous id and the new
\* Discussion for the new id.
C17_CreateReplaces ==
    [][question_id' # question_id =>
          /\ messages' = <<>> /\ clusters' = <<>> /\ unassigned_buffer' = <<>>
          /\ \A q \in 1 .. MaxQuestions :
                /\ q = question_id => get_question_state(q)' = None
                /\ q = question_id' => get_question_state(q)' = q]_vars

\* The second question was just asked; the first one's Discussion had
\* labelled clusters (the message objects keep the labels).
C17_Witness ==
    /\ question_id = 2 /\ analysisPending /\ messages = <<>>
    /\ \E m \in MsgIds : summary[m] # NoLabel
    /\ get_question_state(1) = None

\* C18: the Discussion's message list holds each message_id at most once,
\* after any interleaving of the live ingestion (on_message) and the
\* historical analysis.
C18_UniqueIds == \A m \in MsgIds : Count(messages, m) <= 1

\* C19: no task observes a half-replaced Discussion: when assign_message
\* reads the cluster list and changes it or the buffer, either the old
\* cluster list is in place or the new one with the messages relabelled,
\* two_word_summaries set and the buffer emptied; never the new list with
\* the rest of the replacement (lines 206-215) still to come.
C19_NoHalfReplaced ==
    [][AssignStep => bs.pc # "replaced"]_vars

\* C20: assign_nearest returns None (0) when there are no clusters or when
\* no centroid's similarity to the message reaches the threshold; otherwise
\* it returns the index of a centroid of maximum similarity, and that
\* similarity is >= threshold.
C20_NearestOrNone ==
    nearest.pc = "returned" =>
        LET e == nearest.msg_emb
            cl == nearest.clusters
            t == nearest.threshold
            r == nearest.result
            reaches == \E i \in 1 .. Len(cl) : CosGE(e, cl[i].centroid.num, t)
        IN  /\ (r # 0) <=> reaches
            /\ cl = <<>> => r = 0
            /\ r # 0 =>
                  /\ r \in 1 .. Len(cl)
                  /\ CosGE(e, cl[r].centroid.num, t)
                  /\ \A j \in 1 .. Len(cl) :
                        ~CosGreater(e, cl[j].centroid.num, cl[r].centroid.num)

\* A call with several clusters whose best similarity is the threshold
\* itself, neither above nor below: the index is returned.
C20_Witness ==
    /\ nearest.pc = "returned" /\ nearest.result # 0 /\ Len(nearest.clusters) >= 2
    /\ nearest.threshold > 0
    /\ ~CosGT(nearest.msg_emb, nearest.clusters[nearest.result].centroid.num,
              nearest.threshold)

\* C21: for a cluster with at least one member the representative is one
\* of the cluster's members: the only member, without asking the
\* generator; else the first member equal to the answer (blanks at the
\* ends aside), else the first member contained in or containing the
\* answer, else the first member; and a noble_message_id that is stored is
\* an id of the cluster's message_ids.
C21_NobleIsMember ==
    (call.fn = "noble" /\ call.pc = "stored") =>
        LET msgs == ClusterContents(call)
            sel == Strip(call.answer)
            Exact(i) == Strip(msgs[i]) = sel
            Partial(i) == IsSub(msgs[i], sel) \/ IsSub(sel, msgs[i])
            I == 1 .. Len(msgs)
        IN  /\ ~call.none
            /\ \E i \in I : call.text = msgs[i]
            /\ Len(msgs) = 1 => (call.text = msgs[1] /\ ~call.asked)
            /\ Len(msgs) >= 2 =>
                  /\ call.asked
                  /\ (\E i \in I : Exact(i)) =>
                        \E i \in I : Exact(i) /\ call.text = msgs[i]
                                      /\ \A j \in 1 .. (i - 1) : ~Exact(j)
                  /\ (~(\E i \in I : Exact(i)) /\ \E i \in I : Partial(i)) =>
                        \E i \in I : Partial(i) /\ call.text = msgs[i]
                                      /\ \A j \in 1 .. (i - 1) : ~Partial(j)
                  /\ (\A i \in I : ~Exact(i) /\ ~Partial(i)) => call.text = msgs[1]
            /\ call.noble_message_id # 0 =>
                  /\ call.noble_message_id \in Range(call.message_ids)
                  /\ call.content[call.noble_message_id] = call.text

\* Three members, none equal to the answer and none containing or
\* contained in it: the first member is stored.
C21_Witness ==
    /\ call.fn = "noble" /\ call.pc = "stored" /\ Len(ClusterContents(call)) = 3
    /\ \A i \in 1 .. 3 :
          LET m == ClusterContents(call)[i]
          IN  ~IsSub(m, Strip(call.answer)) /\ ~IsSub(Strip(call.answer), m)
    /\ call.noble_message_id = 1

\* C22: find_cluster_expert returns the author of the cluster's noble
\* message when one is set; otherwise an author with the most messages in
\* the cluster, and among those with the most the one whose message comes
\* first in the membership order; nothing for a cluster without members
\* in the message list.
C22_ExpertChoice ==
    (call.fn = "expert" /\ call.pc = "returned") =>
        LET ids == Resolved(call)
            n(u) == Cardinality({i \in 1 .. Len(ids) : call.user_id[ids[i]] = u})
            first(u) == CHOOSE i \in 1 .. Len(ids) :
                           call.user_id[ids[i]] = u /\ \A j \in 1 .. (i - 1) : call.user_id[ids[j]] # u
            r == call.result
        IN  /\ ids = <<>> => r = 0
            /\ call.noble_message_id # 0 => r = call.user_id[call.noble_message_id]
            /\ (ids # <<>> /\ call.noble_message_id = 0) =>
                  /\ n(r) >= 1
                  /\ \A u \in ExpertUsers : n(u) <= n(r)
                  /\ \A u \in ExpertUsers \ {r} : n(u) = n(r) => first(r) < first(u)

\* No noble message, two authors tied with two messages each: the one
\* returned is the author of the first member.
C22_Witness ==
    /\ call.fn = "expert" /\ call.pc = "returned" /\ call.noble_message_id = 0
    /\ call.result # 0
    /\ \E u \in ExpertUsers \ {call.result} :
          UserCount(call, u) = UserCount(call, call.result) /\ UserCount(call, u) = 2
    /\ FirstSeen(call, call.result) = 1

\* C23: the centroid of a single vector v is v; centroid of no vectors
\* raises instead of returning a value; intra_similarity of a single
\* vector is 1.0 and of no vectors 0.0; a second call on the same array
\* gives the same results, and the array is as it was given.
C23_KernelEdges ==
    (call.fn = "kernel" /\ call.pc \in {"once", "twice"}) =>
        /\ Len(call.embeddings) = 0 =>
              (call.first.raised /\ call.first.intra_sim = [num |-> 0, den |-> 1])
        /\ Len(call.embeddings) = 1 =>
              /\ ~call.first.raised
              /\ call.first.centroid = [num |-> call.embeddings[1], den |-> 1]
              /\ call.first.intra_sim = [num |-> 1, den |-> 1]
        /\ Len(call.embeddings) >= 1 => ~call.first.raised
        /\ call.pc = "twice" => call.second = call.first
        /\ call.embeddings = call.given

\* Both calls made on the single vector (3, 4).
C23_Witness ==
    call.fn = "kernel" /\ call.pc = "twice" /\ call.embeddings = <<(<<3, 4>>)>>
\* C24: a failing save_all_questions is never propagated.  While the disk
\* cannot be written the call raises nothing, and the step that completes
\* its caller (process_one after add_message_to_active_question, through
\* assign_message; the commit of a bootstrap pass) leaves the mutation in
\* memory: the message is stored and in a cluster or in the buffer, the new
\* cluster list replaces the old one and the buffer is empty, while the file
\* stays behind (dirty).
C24_SaveFailureContained ==
    /\ [](~diskOk => ~save_all_questions.raised)
    /\ [][~diskOk =>
           /\ \A h \in 1 .. Len(hPc) :
                 hPc[h] = "broadcast" /\ hPc'[h] = "done" =>
                    /\ dirty'
                    /\ hMsg[h] \in Range(messages')
                    /\ \/ hMsg[h] \in Range(unassigned_buffer')
                       \/ \E i \in 1 .. Len(clusters') :
                             /\ hMsg[h] \in Range(clusters'[i].message_ids)
                             /\ summary'[hMsg[h]] = clusters'[i].label
           /\ epoch' # epoch =>
                    /\ dirty'
                    /\ clusters' # <<>>
                    /\ unassigned_buffer' = <<>>
                    /\ two_word_summaries' = {clusters'[i].label : i \in 1 .. Len(clusters')}]_vars

\* A bootstrap pass and a live message's process_one have both completed
\* on a disk that could not be written: the message sits in a cluster of
\* the new list, the file is behind.
C24_Witness ==
    /\ ~diskOk
    /\ dirty
    /\ epoch >= 1
    /\ bs = IdleBs
    /\ hPc # <<>>
    /\ \A h \in 1 .. Len(hPc) : hPc[h] = "done"
    /\ \E h \in 1 .. Len(hPc) : hStored[h] /\ ClustersOf(hMsg[h]) # {}

C26_AssignFrame ==
    [][AssignStep =>
         LET h == CHOOSE g \in 1 .. Len(hPc) : hPc'[g] # hPc[g]
             m == hMsg[h]
             idx == assign_nearest(EmbeddingOf(ContentOf(m)), clusters,
                                   CLUSTER_ASSIGNMENT_THRESHOLD)
         IN  /\ Len(clusters') = Len(clusters)
             /\ \A i \in 1 .. Len(clusters) :
                   /\ clusters'[i].label = clusters[i].label
                   /\ i # idx => clusters'[i] = clusters[i]
             /\ \A x \in MsgIds \ {m} : summary'[x] = summary[x]
             /\ UNCHANGED <<two_word_summaries, epoch, lastPass, bs, bootCount, messages>>
             /\ IF idx # 0
                THEN /\ clusters'[idx].message_ids = Append(clusters[idx].message_ids, m)
                     /\ summary'[m] = IF hStored[h] THEN clusters[idx].label ELSE summary[m]
                     /\ unassigned_buffer' = unassigned_buffer
                ELSE /\ unassigned_buffer' = Append(unassigned_buffer, m)
                     /\ clusters' = clusters
                     /\ summary'[m] = summary[m]]_vars

\* A live message has been appended to a cluster of two earlier members
\* and carries its label, while another cluster and the labels of its
\* members are as the pass left them.
C26_Witness ==
    /\ epoch = 1
    /\ unassigned_buffer = <<>>
    /\ \E h \in 1 .. Len(hPc), i \in 1 .. Len(clusters) :
          /\ hPc[h] = "done"
          /\ hStored[h]
          /\ Len(clusters[i].message_ids) = 3
          /\ clusters[i].message_ids[3] = hMsg[h]
          /\ summary[hMsg[h]] = clusters[i].label
          /\ clusters[i].centroid = centroid(EmbsOf(clusters[i].message_ids))
          /\ \E j \in 1 .. Len(clusters) :
                j # i /\ clusters[j].centroid = centroid(EmbsOf(clusters[j].message_ids))

\* C27: a buffered message is picked up by a later pass without a newer
\* message having to arrive.  Stated on the states where nothing is in
\* progress (no on_message task, no pass): if the buffer holds an id and the
\* Discussion has at least k messages, the loop's next iteration does not
\* skip, that is, its stored count differs from the message count.
C27_BufferedIsPickedUp ==
    (/\ unassigned_buffer # <<>>
     /\ Len(messages) >= CLUSTER_MAX_COUNT
     /\ apiTask = "idle"
     /\ bs = IdleBs
     /\ \A h \in 1 .. Len(hPc) : hPc[h] = "done")
        => Len(messages) # last_message_count

\* C28: label carry-over.  A group takes the label of a prior cluster
\* exactly when some prior cluster shares with it more than half of the
\* smaller of the two; it is then the label of the prior cluster with the
\* greatest ratio, the first of them on ties; the generator is called
\* exactly when there is no such prior cluster.
C28_CarryOver ==
    (call.fn = "carry_over" /\ call.pc = "done") =>
        LET ids == call.cluster_msg_ids
            cl == call.clusters
            r == call.result
            inter(i) == Cardinality(ids \cap {cl[i].message_ids[j] : j \in 1 .. Len(cl[i].message_ids)})
            small(i) == IF Cardinality(ids) < Len(cl[i].message_ids)
                        THEN Cardinality(ids) ELSE Len(cl[i].message_ids)
            Above == {i \in 1 .. Len(cl) : small(i) > 0 /\ 2 * inter(i) > small(i)}
        IN  /\ r.generate <=> Above = {}
            /\ r.generate => r.label = NoLabel /\ r.matching = 0
            /\ ~r.generate =>
                  /\ r.matching \in Above
                  /\ r.label = cl[r.matching].label
                  /\ \A j \in Above :
                        /\ inter(j) * small(r.matching) <= inter(r.matching) * small(j)
                        /\ j < r.matching =>
                              inter(j) * small(r.matching) < inter(r.matching) * small(j)

\* Two prior clusters share more than half with the group, in the same
\* ratio, and neither is wholly inside it: the first one's label is taken.
C28_Witness ==
    /\ call.fn = "carry_over"
    /\ call.pc = "done"
    /\ Len(call.clusters) = 2
    /\ call.cluster_msg_ids = {1, 2, 3}
    /\ call.clusters[1].message_ids = <<2, 3, 4>>
    /\ call.clusters[2].message_ids = <<1, 2, 4>>
    /\ call.result.matching = 1
    /\ call.result.label = <<"Plan">>
    /\ ~call.result.generate

\* The groups of a pass in the order of their cluster_id, and the
\* memberships and labels of a cluster list.
PassGroups(b) == [i \in 1 .. Cardinality(Range(b.part)) |-> GroupMessages(b, i - 1)]
MembersOf(cl) == [i \in 1 .. Len(cl) |-> cl[i].message_ids]
LabelsOf(cl) == [i \in 1 .. Len(cl) |-> cl[i].label]

\* C29: cluster names persist across passes.  A pass whose groups are the
\* memberships the last completed pass produced (KMeans with its fixed
\* seed on an unchanged message list) never waits for the label generator,
\* and the cluster list it installs has, group by group, the labels of the
\* last pass.
C29_NamesPersist ==
    /\ [](bs.pc = "label" /\ lastPass # <<>> => PassGroups(bs) # MembersOf(lastPass))
    /\ [][(epoch' # epoch /\ lastPass # <<>> /\ MembersOf(clusters') = MembersOf(lastPass))
           => LabelsOf(clusters') = LabelsOf(lastPass)]_vars

\* Two passes have run on the same message list, no live message having
\* arrived: the second has installed a list of several clusters.
C29_Witness ==
    /\ epoch = 2
    /\ bootCount = 2
    /\ hMsg = <<>>
    /\ Len(clusters) >= 2
    /\ clusters = lastPass
    /\ \A i, j \in 1 .. Len(clusters) : i # j => clusters[i].label # clusters[j].label

\* C30: the dedup retry is bounded and never fails.  For the answers the
\* generator gives, the loop calls it once plain, then as a retry, then as
\* a hard retry, and stops at the first answer that collides with no label
\* of this pass (same text up to case, or similarity above 0.90) or at the
\* third call; it ends with that answer, with the distinguishing word of
\* the group's texts appended when the third answer collides too; the
\* label is not empty, nothing is raised, and it is the label the pass of
\* the engine model takes.
C30_RetryBounded ==
    (call.fn = "retry" /\ call.pc = "done") =>
        LET outs == call.outs
            gen == call.generated_labels
            r == call.result
            Collides(c) == \E i \in 1 .. Len(gen) :
                              \/ Lower(c) = Lower(gen[i])
                              \/ CosGT(LabelEmbedding(c), LabelEmbedding(gen[i]),
                                       LABEL_SIMILARITY_LIMIT)
            n == Len(r.levels)
        IN  /\ n \in 1 .. MAX_ATTEMPTS
            /\ MAX_ATTEMPTS = 3
            /\ \A i \in 1 .. n :
                  /\ r.levels[i].is_retry = (i >= 2)
                  /\ r.levels[i].is_hard_retry = (i = 3)
            /\ \A i \in 1 .. (n - 1) : Collides(outs[i])
            /\ n < MAX_ATTEMPTS => ~Collides(outs[n])
            /\ r.label = IF Collides(outs[n])
                         THEN outs[n] \o <<Capitalize(FirstWordOf(ContentOf(
                                                TopMessage(call.cluster_messages))))>>
                         ELSE outs[n]
            /\ r.label # NoLabel
            /\ ~r.raised
            /\ r.label = LabelLoop(outs, 0, gen, call.cluster_messages)

\* Three answers, each colliding with a label of the pass (the first a
\* duplicate up to case, the second too similar): three calls, and the
\* third answer with the group's word appended.
C30_Witness ==
    /\ call.fn = "retry"
    /\ call.pc = "done"
    /\ call.generated_labels = <<<<"Plan">>, <<"Plan", "Budget">>>>
    /\ call.outs = <<<<"plan">>, <<"Cost">>, <<"Plan">>>>
    /\ call.cluster_messages = <<3, 4>>
    /\ Len(call.result.levels) = 3
    /\ call.result.label = <<"Plan", "Budget">>

\* C31: cluster_embeddings returns a grouping with the smallest number of
\* groups for which every group of more than one point has a mean
\* similarity of at least min_sim; the grouping of the fixed count is what
\* it returns only when no number of groups in 1..n gives such a grouping.
C31_SmallestValidCount ==
    (call.fn = "cluster_embeddings" /\ call.pc = "done") =>
        LET n == Len(call.embs)
            ValidCounts == {k \in 1 .. n : \E P \in fit_predict(call.embs, k) :
                                              GroupingValid(call.embs, P, call.min_sim)}
        IN  ValidCounts # {} =>
                /\ GroupingValid(call.embs, call.best_labels, call.min_sim)
                /\ \A k \in ValidCounts : Cardinality(call.best_labels) <= k

\* The binary search ends: it never makes more iterations than there are
\* points, and a call that has not returned has its next step.
C31_SearchTerminates ==
    call.fn = "cluster_embeddings" =>
        /\ call.iterations < Len(call.embs)
        /\ call.lo <= call.hi
        /\ call.pc = "search" /\ call.lo < call.hi =>
              fit_predict(call.embs, (call.lo + call.hi) \div 2) # {}

\* C32: the cluster count is bounded.  In every state the Discussion has at
\* most CLUSTER_MAX_COUNT clusters and every cluster has a member; the
\* number of clusters changes only in the step in which a bootstrap pass
\* replaces the list, never in a step of assign_message.
C32_BoundedClusters ==
    /\ [](/\ Len(clusters) <= CLUSTER_MAX_COUNT
          /\ \A i \in 1 .. Len(clusters) : clusters[i].message_ids # <<>>)
    /\ [][/\ Len(clusters') # Len(clusters) => epoch' = epoch + 1 /\ BootstrapStep
          /\ AssignStep => Len(clusters') = Len(clusters)]_vars

\* A pass has made several clusters and a live message has joined one of
\* them afterwards.
C32_Witness ==
    /\ Len(clusters) >= 3
    /\ epoch >= 1
    /\ \E h \in 1 .. Len(hPc) :
          hPc[h] = "done" /\ hStored[h] /\ ClustersOf(hMsg[h]) # {}
    /\ clusters # lastPass

\* C33: a bootstrap asked for with too few messages is a no-op.  A step of
\* the periodic loop at fewer than 4 messages, and a step of process_all at
\* fewer than k messages, leave the clusters, the labels,
\* two_word_summaries and the buffer as they are, fetch no embedding and
\* start no pass (no KMeans, no label generator).
C33_TooFewIsNoOp ==
    [][(\/ /\ last_message_count' # last_message_count
           /\ restarts' = restarts
           /\ Len(messages) < PERIODIC_MIN_MESSAGES
        \/ /\ apiTask = "process_all" /\ apiTask' # apiTask
           /\ restarts' = restarts
           /\ Len(messages) < CLUSTER_MAX_COUNT)
         => UNCHANGED <<clusters, summary, two_word_summaries, unassigned_buffer, epoch,
                        cache, bs, bootCount, messages>>]_vars

\* The loop has looked at a Discussion of fewer than 4 messages, one of
\* them waiting in the buffer, and has left it without clusters.
C33_Witness ==
    /\ last_message_count = Len(messages)
    /\ Len(messages) \in 1 .. (PERIODIC_MIN_MESSAGES - 1)
    /\ unassigned_buffer # <<>>
    /\ clusters = <<>>
    /\ bootCount = 0
    /\ bs = IdleBs

\* C34: the user ratio of a label is the number of distinct authors of its
\* messages over max(1, eligible), where eligible is the guild's member
\* count when that is above 0 and the number of authors who have posted in
\* the Discussion otherwise.
C34_ParticipantRatio ==
    evalPc \in {"detected", "redetected"} =>
        \A label \in EvalLabels \ {NoLabel} :
            LET at == {i \in 1 .. Len(messages) : summary[messages[i]] = label}
                authors == {AuthorOf(messages[i]) : i \in at}
                posted == {AuthorOf(messages[i]) : i \in 1 .. Len(messages)}
                eligible == IF total_guild_members > 0 THEN total_guild_members
                            ELSE Cardinality(posted)
                r == MetricsOf(label).user_ratio
            IN  at # {} =>
                   r.num * (IF eligible > 1 THEN eligible ELSE 1) = Cardinality(authors) * r.den

\* The guild answered its member count; a label whose messages come from
\* two authors, fewer than have posted, was evaluated.
C34_Witness ==
    /\ evalPc = "detected"
    /\ total_guild_members = MaxGuild
    /\ \E label \in EvalLabels \ {NoLabel} :
          /\ Cardinality({AuthorOf(m) : m \in Range(LabelMessages(label))}) = 2
          /\ Cardinality({AuthorOf(m) : m \in Range(messages)}) \notin {2, MaxGuild}

\* C35: the sentiment deviation of a label's messages, as the evaluator
\* computes it and as the cluster statistics compute it, is the deviation
\* of the values +1 for a class the classifier stores for a positive
\* message, -1 for a negative one and 0 for neutral or none; a label whose
\* messages are split between the positive and the negative class has a
\* deviation above 0.25 in the evaluator and is not handed on as a
\* consensus.
C35_SentimentSpread ==
    evalPc \in {"detected", "redetected"} =>
        \A label \in EvalLabels \ {NoLabel} :
            LET ms == LabelMessages(label)
                n == Len(ms)
                enc == [i \in 1 .. n |->
                          CASE classification[ms[i]] \in {"positive", "good"} -> 1
                            [] classification[ms[i]] \in {"negative", "bad"} -> -1
                            [] OTHER -> 0]
                s1 == SumOf(enc)
                s2 == SumOf([i \in 1 .. n |-> enc[i] * enc[i]])
                spread == RootOf(Rat(n * s2 - s1 * s1, n * n))
                split == (\E i \in 1 .. n : enc[i] = 1) /\ (\E i \in 1 .. n : enc[i] = -1)
            IN  n > 0 =>
                   /\ MetricsOf(label).sentiment_std = spread
                   /\ sentiment_metrics(ms).std = spread
                   /\ split => /\ ~RootLE(MetricsOf(label).sentiment_std, SENTIMENT_STD_MAX)
                               /\ label \notin Range(analyzed)

\* C36: while no bootstrap pass and no assign_message is under way, every
\* stored message whose id is in a cluster's message_ids carries that
\* cluster's label as its two_word_summary, and two_word_summaries is the
\* set of the labels of the clusters the last completed pass made.
C36_LabelConsistency ==
    (bs.pc = "idle" /\ ~BotBusy) =>
        /\ \A i \in 1 .. Len(clusters) :
              \A m \in Range(clusters[i].message_ids) \cap Range(messages) :
                 summary[m] = clusters[i].label
        /\ two_word_summaries = {lastPass[i].label : i \in 1 .. Len(lastPass)}
        /\ {clusters[i].label : i \in 1 .. Len(clusters)} = two_word_summaries

C38_BatchInOrder ==
    (call.fn = "get_embeddings_batch" /\ call.pc = "done") =>
        LET msgs == call.messages
            out == call.out
            needs == \E i \in 1 .. Len(msgs) : msgs[i] \notin call.cached
        IN  /\ ~out.raised =>
                  /\ Len(out.result) = Len(msgs)
                  /\ \A i \in 1 .. Len(msgs) : out.result[i] = EmbeddingOf(msgs[i])
            /\ \A j \in 1 .. Len(out.sent) : out.sent[j] \notin call.cached
            /\ (needs /\ ~call.up) => (out.raised /\ out.cache = call.cached)

\* C38 amended: one vector per input text in input order whenever the call
\* returns; a call with use_cache sends the provider exactly the texts
\* without a cache entry, caches them, and raises exactly when there is
\* such a text and the provider cannot be reached; a call without
\* use_cache sends every text, cached or not, and leaves the cache alone;
\* a call that raises has sent nothing and cached nothing.
C38_BatchCached ==
    (call.fn = "get_embeddings_batch" /\ call.pc = "done") =>
        LET msgs == call.messages
            out == call.out
            misses == SelectSeq(msgs, LAMBDA t : t \notin call.cached)
        IN  /\ ~out.raised =>
                  /\ Len(out.result) = Len(msgs)
                  /\ \A i \in 1 .. Len(msgs) : out.result[i] = EmbeddingOf(msgs[i])
            /\ call.use_cache =>
                  /\ out.raised = (misses # <<>> /\ ~call.up)
                  /\ ~out.raised => (out.sent = misses /\ out.cache = call.cached \cup Range(msgs))
            /\ ~call.use_cache =>
                  /\ out.raised = (msgs # <<>> /\ ~call.up)
                  /\ ~out.raised => out.sent = msgs
                  /\ out.cache = call.cached
            /\ out.raised => (out.cache = call.cached /\ out.sent = <<>>)

\* Three texts, the first and the last without a cache entry, the second
\* cached: the two misses went to the provider and three vectors came
\* back.
C38_Witness ==
    /\ call.fn = "get_embeddings_batch"
    /\ call.pc = "done"
    /\ call.use_cache
    /\ Len(call.messages) = MaxBatch
    /\ call.messages[1] \notin call.cached
    /\ call.messages[2] \in call.cached
    /\ call.messages[3] \notin call.cached
    /\ ~call.out.raised
    /\ Len(call.out.sent) = 2
    /\ Len(call.out.result) = MaxBatch

====
